---- MODULE Spec2Model ----
(***************************************************************************)
(* ShiftCodeObserver: the monitoring pass (runMonitor) and the webhook     *)
(* dispatcher (dispatchNotifications) as a state machine.                  *)
(*                                                                         *)
(* One run is a sequence of steps separated by the awaits of the code:     *)
(* listCodes, one fetch per enabled source, one saveCode per fetched code, *)
(* one webhook request per delivery attempt, one saveNotificationLog per   *)
(* terminal outcome, one saveCode per sent record.                         *)
(***************************************************************************)
EXTENDS Integers, Sequences, FiniteSets, TLC

(* ------------------------------ bounds -------------------------------- *)

\* number of runs of runMonitor in one behaviour
MaxRuns == 2
\* number of codes one fetch returns (after the reducer)
MaxFeedLen == 1
\* the clock saturates here (two readings of Date may be equal)
MaxClock == 4

(* ------------------------- program constants -------------------------- *)

MAX_NOTIFICATION_ATTEMPTS == 3
BACKOFF_BASE_MS == 1000

\* the order of the source list of runMonitor
SOURCE_ORDER == <<"OFFICIAL_SITE", "OFFICIAL_X", "MEDIA_TRUSTED", "COMMUNITY_AUX">>

(* --------------------------- optional values -------------------------- *)

\* an absent (undefined / null) value and a present one
None == <<>>
Some(v) == <<v>>
Has(x) == x # None
Val(x) == x[1]

(* ------------------------------ inputs -------------------------------- *)

\* normalized code texts the feeds may carry
CodeTexts == {"AAAAA-AAAAA-AAAAA-AAAAA-AAAAA", "BBBBB-BBBBB-BBBBB-BBBBB-BBBBB"}
\* expiry instants a feed entry may carry (on the clock's scale), or none
FeedExpiries == {None, Some(1)}
FeedStatuses == {"Active", "Expired"}
\* which source URLs the deployment configures
SourceConfigs == {{"OFFICIAL_SITE", "MEDIA_TRUSTED"}}
\* HTTP statuses of a failed source fetch, and messages of other failures
FetchFailStatuses == {404, 429, 451, 500}
ErrorMessages == {"network error"}

FeedRewards == {"Unknown", "Golden Key"}
FeedNotes == {None, Some("seen in the article")}

\* a feed entry after the canonicalizer, before it is given an id
Observations ==
    [codeText : CodeTexts, status : FeedStatuses, expiresAt : FeedExpiries,
     rewardType : FeedRewards, notes : FeedNotes]

RECURSIVE SeqsUpTo(_, _)
SeqsUpTo(S, n) ==
    IF n = 0 THEN {<<>>}
    ELSE LET shorter == SeqsUpTo(S, n - 1)
         IN  shorter \cup {Append(s, x) : s \in {t \in shorter : Len(t) = n - 1}, x \in S}

\* the reducer returns one code per hash: the feeds are the lists without a
\* repeated code text; the article scraper marks every draft Active and
\* gives it notes (the text around the code), the JSON entries here have none
FeedsOf(sourceName) ==
    {f \in SeqsUpTo(Observations, MaxFeedLen) :
        /\ \A i, j \in 1..Len(f) : i # j => f[i].codeText # f[j].codeText
        /\ \A i \in 1..Len(f) :
              IF sourceName = "MEDIA_TRUSTED"
              THEN f[i].status = "Active" /\ f[i].notes # None
              ELSE f[i].notes = None}

\* the Retry-After header of a webhook response: absent, a number of seconds
\* (in tenths, so that fractions occur), an HTTP date (its distance from
\* Date.now() in ms), or text that is neither
RetryAfterHeaders ==
    {[kind |-> "absent", n |-> 0], [kind |-> "junk", n |-> 0]}
        \cup [kind : {"number"}, n : {-50, 0, 15, 20, 50000}]
        \cup [kind : {"date"}, n : {-5000, 2500, 4000000}]

\* what the webhook answers: a status (with Retry-After on a 429), or the
\* request throws
WebhookStatuses == {200, 400, 404, 429, 500, 503}
NoHeader == [kind |-> "absent", n |-> 0]
WebhookResponses ==
    [kind : {"http"}, status : WebhookStatuses \ {429}, retryAfter : {NoHeader},
     message : {""}]
        \cup [kind : {"http"}, status : {429}, retryAfter : RetryAfterHeaders,
               message : {""}]
        \cup [kind : {"throws"}, status : {0}, retryAfter : {NoHeader},
               message : {"fetch failed"}]
\* the answers a whole run is explored with
RunWebhookResponses ==
    {r \in WebhookResponses : r.kind = "http" /\ r.status \in {200, 400, 500}}

\* what a failed fetch or a failed store call throws
Failures ==
    [kind : {"http"}, status : FetchFailStatuses, message : {""}]
        \cup [kind : {"other"}, status : {0}, message : ErrorMessages]

(* ------------------------------ state --------------------------------- *)

VARIABLES
    env,                  \* MODE, DISCORD_WEBHOOK_URL, configured source URLs
    webhook,              \* the answers the webhook endpoint may give
    clock,                \* the wall clock
    store,                \* R2 objects under codes/: the stored ShiftCodes
    runNo,                \* runs started so far
    pc,                   \* position of the run in progress
    now,                  \* runMonitor's now
    allCodes,             \* runMonitor's allCodes
    newCodes,             \* runMonitor's newCodes
    codesForNotification, \* runMonitor's codesForNotification
    srcIdx,               \* index of the source being processed
    pending,              \* codes of the current source not yet merged
    sourcesScanned, errors, http429, http5xx,
    summary,              \* the MonitorResult of the last completed run
    codes,                \* dispatchNotifications' codes
    dIdx,                 \* index in codes of the record being delivered
    timestamp,            \* dispatchNotifications' timestamp of that record
    attempt, delivered, lastResponseStatus, lastError,
    result,               \* dispatchNotifications' result
    callLogs,             \* the NotificationLogs the call in progress has saved
    sIdx,                 \* index in sentRecords of the post-dispatch loop
    requests,             \* history: the responses to the requests for this record
    waits,                \* history: the sleeps (ms) completed for this record
    logWriteFailed,       \* history: a saveNotificationLog of this call threw
    storeAtStart,         \* history: the store when the run started
    observed,             \* history: <<source, hash, expiresAt, rewardType>> of the codes merged in this run
    metrics,              \* the R2 object state/metrics.json
    sentEver,             \* history: ids reported sent by the runs that have returned
    failures,             \* history: what the catch of the source loop caught in this run
    rejectedBy,           \* history: the store call whose failure rejected the run, or ""
    input,                \* the argument of a function applied on its own
    output,               \* its result
    resend,               \* resendNotifications' options and selected, or none
    overlap               \* two runs that overlap in time: their locals, or none

runVars == <<now, allCodes, newCodes, codesForNotification, srcIdx, pending,
             sourcesScanned, errors, http429, http5xx, sIdx, storeAtStart,
             observed>>

dispatchVars == <<codes, dIdx, timestamp, attempt, delivered, lastResponseStatus,
                  lastError, result, callLogs, requests, waits, logWriteFailed>>

vars == <<env, webhook, clock, store, runNo, pc, runVars, dispatchVars, summary,
          metrics, sentEver, failures, rejectedBy, input, output, resend, overlap>>

(* ----------------------------- helpers -------------------------------- *)

\* new Date(): the clock does not go back
Tick(c) == IF c < MaxClock THEN c + 1 ELSE c

\* hashCode: SHA-256 in hex, taken to be injective
hashCode(text) == "sha256(" \o text \o ")"

\* ensureUnique / [...new Set(xs)]: first occurrences, in order
RECURSIVE ensureUnique(_)
ensureUnique(xs) ==
    IF xs = <<>> THEN <<>>
    ELSE LET init == ensureUnique(SubSeq(xs, 1, Len(xs) - 1))
             last == xs[Len(xs)]
         IN  IF \E i \in 1..Len(init) : init[i] = last THEN init ELSE Append(init, last)

\* the elements of an array
Range(xs) == {xs[i] : i \in 1..Len(xs)}

\* { ...a, ...b } on metadata bags: the keys b defines win
Overlay(a, b) ==
    [k \in DOMAIN a |-> IF Has(b[k]) THEN b[k] ELSE a[k]]

\* the empty metadata bag
NoMetadata == [url |-> None, notes |-> None, isFallback |-> None, notifiedAt |-> None]

\* the sources with a configured URL, in the fixed order
RECURSIVE FilterSeq(_, _)
FilterSeq(xs, S) ==
    IF xs = <<>> THEN <<>>
    ELSE LET rest == FilterSeq(Tail(xs), S)
         IN  IF Head(xs) \in S THEN <<Head(xs)>> \o rest ELSE rest

sources == FilterSeq(SOURCE_ORDER, env.urls)

\* array.find / findIndex: the first index whose element satisfies, or 0
FindIndex(xs, P(_)) ==
    IF \E i \in 1..Len(xs) : P(xs[i])
    THEN CHOOSE i \in 1..Len(xs) : P(xs[i]) /\ \A j \in 1..(i - 1) : ~P(xs[j])
    ELSE 0


(* --------------------------- storage.ts ------------------------------- *)

\* order of two ids in an R2 listing
IdBefore(a, b) ==
    \/ a[1] < b[1]
    \/ a[1] = b[1] /\ a[2] < b[2]
    \/ a[1] = b[1] /\ a[2] = b[2] /\ a[3] < b[3]

\* listCodes: every stored code, latest updatedAt first
RECURSIVE SortCodes(_)
SortCodes(S) ==
    IF S = {} THEN <<>>
    ELSE LET first == CHOOSE c \in S : \A d \in S \ {c} :
                          \/ c.updatedAt > d.updatedAt
                          \/ c.updatedAt = d.updatedAt /\ IdBefore(c.id, d.id)
         IN  <<first>> \o SortCodes(S \ {first})

listCodes == SortCodes(store)

\* (mutant) an object that exists is never written again
saveCode_OnlyIfAbsent(objects, code) ==
    IF \E c \in objects : c.id = code.id THEN objects ELSE objects \cup {code}

\* saveCode -> saveShiftCodeIfChanged: the object codes/<id>.json is written
\* unless it already holds the same value
saveCode(objects, code) ==
    IF code \in objects THEN objects
    ELSE {c \in objects : c.id # code.id} \cup {code}

\* getMetrics: the object state/metrics.json, if there is one (no KV binding)
getMetrics == metrics

(* --------------------------- monitor.ts ------------------------------- *)

\* buildMetadata for a JSON-feed or article draft: url and isFallback are
\* always set, notes when the draft has them
buildMetadata(obs, url) ==
    [url |-> Some(url), notes |-> obs.notes, isFallback |-> Some(FALSE), notifiedAt |-> None]

\* draftToShiftCode: the canonical record of one observation
draftToShiftCode(sourceName, obs, collectedAt, id) ==
    [id |-> id,
     title |-> "BL4",
     codeText |-> obs.codeText,
     rewardType |-> obs.rewardType,
     expiresAt |-> obs.expiresAt,
     firstSeenAt |-> collectedAt,
     status |-> obs.status,
     sources |-> <<sourceName>>,
     hash |-> hashCode("BL4:" \o obs.codeText),
     createdAt |-> collectedAt,
     updatedAt |-> collectedAt,
     metadata |-> buildMetadata(obs, sourceName)]

\* (mutant) an expiry equal to the instant still counts as ahead
shouldNotify_ExpiryInclusive(code, at) ==
    IF Has(code.metadata.isFallback) /\ Val(code.metadata.isFallback) THEN FALSE
    ELSE IF code.status # "Active" THEN FALSE
    ELSE IF Has(code.expiresAt) /\ Val(code.expiresAt) < at THEN FALSE
    ELSE TRUE

\* shouldNotify
shouldNotify(code, at) ==
    IF Has(code.metadata.isFallback) /\ Val(code.metadata.isFallback) THEN FALSE
    ELSE IF code.status # "Active" THEN FALSE
    ELSE IF Has(code.expiresAt) /\ Val(code.expiresAt) <= at THEN FALSE
    ELSE TRUE

\* the catch of the source loop: "429" in the message, else "5" in it
MessageHas429(e) == e.kind = "http" /\ e.status = 429
MessageHas5(e) ==
    e.kind = "http" /\ 5 \in {e.status \div 100, (e.status \div 10) % 10, e.status % 10}


(* ------------------------------- Init --------------------------------- *)

\* the locals of a run and of a dispatch call when neither is in progress,
\* over a bucket that holds these codes and after this number of runs
InitLocalsAfter(objects, started) ==
    /\ clock = 0
    /\ store = objects
    /\ runNo = started
    /\ now = 0
    /\ allCodes = <<>>
    /\ newCodes = <<>>
    /\ srcIdx = 0
    /\ pending = <<>>
    /\ sourcesScanned = <<>>
    /\ errors = 0
    /\ http429 = 0
    /\ http5xx = 0
    /\ summary = None
    /\ codes = <<>>
    /\ dIdx = 0
    /\ timestamp = 0
    /\ attempt = 0
    /\ delivered = FALSE
    /\ lastResponseStatus = None
    /\ lastError = None
    /\ result = [sent |-> 0, attempted |-> 0, sentRecords |-> <<>>]
    /\ callLogs = <<>>
    /\ sIdx = 0
    /\ requests = <<>>
    /\ waits = <<>>
    /\ logWriteFailed = FALSE
    /\ storeAtStart = {}
    /\ observed = {}
    /\ metrics = None
    /\ sentEver = {}
    /\ failures = <<>>
    /\ rejectedBy = ""
    /\ resend = None

\* the same before any run
InitLocalsOver(objects) == InitLocalsAfter(objects, 0)

\* the same over an empty bucket
InitLocals == InitLocalsOver({})

Envs ==
    [MODE : {"PROD", "DRY_RUN"},
     DISCORD_WEBHOOK_URL : {None, Some("https://discord.example/webhook")},
     urls : SourceConfigs]

\* the worker is deployed: nothing stored, no run yet
Init ==
    /\ env \in Envs
    /\ webhook = RunWebhookResponses
    /\ pc = "idle"
    /\ codesForNotification = <<>>
    /\ input = <<>>
    /\ output = <<>>
    /\ InitLocals
    /\ overlap = None

(* ------------------------- runMonitor: start -------------------------- *)

\* (mutant) the loop never leaves the sources
AfterSource_Again(i) == "fetch"

\* (mutant) the dispatch follows the first source
AfterSource_DispatchEarly(i) == "dispatch"

\* where the source loop goes after source i
AfterSource(i) == IF i >= Len(sources) THEN "dispatch" ELSE "fetch"

\* runMonitor up to the source loop: listCodes succeeded
StartRun ==
    /\ failures' = <<>>
    /\ rejectedBy' = ""
    /\ UNCHANGED sentEver
    /\ pc \in {"idle", "returned", "rejected"}
    /\ runNo < MaxRuns
    /\ runNo' = runNo + 1
    /\ now' = clock
    /\ clock' = Tick(clock)
    /\ allCodes' = listCodes
    /\ newCodes' = <<>>
    /\ codesForNotification' = <<>>
    /\ sourcesScanned' = <<>>
    /\ errors' = 0
    /\ http429' = 0
    /\ http5xx' = 0
    /\ srcIdx' = 1
    /\ pending' = <<>>
    /\ sIdx' = 0
    /\ storeAtStart' = store
    /\ observed' = {}
    /\ pc' = AfterSource(0)
    /\ codes' = <<>>
    /\ dIdx' = 0
    /\ timestamp' = 0
    /\ attempt' = 0
    /\ delivered' = FALSE
    /\ lastResponseStatus' = None
    /\ lastError' = None
    /\ result' = [sent |-> 0, attempted |-> 0, sentRecords |-> <<>>]
    /\ callLogs' = <<>>
    /\ requests' = <<>>
    /\ waits' = <<>>
    /\ logWriteFailed' = FALSE
    /\ summary' = None
    /\ UNCHANGED <<env, webhook, resend, overlap, metrics, input, output, store>>

\* listCodes throws: runMonitor rejects
StartRunStoreFails ==
    /\ rejectedBy' = "listCodes"
    /\ UNCHANGED <<sentEver, failures>>
    /\ pc \in {"idle", "returned", "rejected"}
    /\ runNo < MaxRuns
    /\ runNo' = runNo + 1
    /\ pc' = "rejected"
    /\ UNCHANGED <<env, webhook, resend, overlap, metrics, input, output, clock, store, summary, runVars, dispatchVars>>


(* ---------------------- runMonitor: the source loop ------------------- *)

\* (mutant) a failure with an HTTP status is not counted in errors
CatchSourceError_CountsOthers(e) ==
    /\ failures' = Append(failures, [source |-> sources[srcIdx], pos |-> pc, error |-> e])
    /\ errors' = IF e.kind = "http" THEN errors ELSE errors + 1
    /\ http429' = IF MessageHas429(e) THEN http429 + 1 ELSE http429
    /\ http5xx' = IF ~MessageHas429(e) /\ MessageHas5(e) THEN http5xx + 1 ELSE http5xx
    /\ pending' = <<>>
    /\ srcIdx' = srcIdx + 1
    /\ pc' = AfterSource(srcIdx)

\* (mutant) no catch: the error leaves runMonitor
CatchSourceError_Aborts(e) ==
    /\ failures' = Append(failures, [source |-> sources[srcIdx], pos |-> pc, error |-> e])
    /\ errors' = errors + 1
    /\ pc' = "rejected"
    /\ UNCHANGED <<http429, http5xx, pending, srcIdx>>

\* the catch of the source loop
CatchSourceError(e) ==
    /\ failures' = Append(failures, [source |-> sources[srcIdx], pos |-> pc, error |-> e])
    /\ errors' = errors + 1
    /\ http429' = IF MessageHas429(e) THEN http429 + 1 ELSE http429
    /\ http5xx' = IF ~MessageHas429(e) /\ MessageHas5(e) THEN http5xx + 1 ELSE http5xx
    /\ pending' = <<>>
    /\ srcIdx' = srcIdx + 1
    /\ pc' = AfterSource(srcIdx)

\* fetchFromSource returns the codes of the source
FetchOk ==
    /\ UNCHANGED <<sentEver, failures, rejectedBy>>
    /\ pc = "fetch"
    /\ srcIdx <= Len(sources)
    /\ \E feed \in FeedsOf(sources[srcIdx]) :
         /\ pending' = [k \in 1..Len(feed) |->
                           draftToShiftCode(sources[srcIdx], feed[k], clock,
                                            <<runNo, srcIdx, k>>)]
         /\ srcIdx' = IF feed = <<>> THEN srcIdx + 1 ELSE srcIdx
         /\ pc' = IF feed = <<>> THEN AfterSource(srcIdx) ELSE "merge"
    /\ sourcesScanned' = Append(sourcesScanned, sources[srcIdx])
    /\ UNCHANGED <<env, webhook, resend, overlap, metrics, input, output, clock, store, runNo, summary, now, allCodes, newCodes,
                   codesForNotification, errors, http429, http5xx, sIdx,
                   storeAtStart, observed, dispatchVars>>

\* fetchFromSource throws: a non-2xx status or a transport error
FetchFails ==
    /\ UNCHANGED <<sentEver, rejectedBy>>
    /\ pc = "fetch"
    /\ srcIdx <= Len(sources)
    /\ \E e \in Failures : CatchSourceError(e)
    /\ sourcesScanned' = Append(sourcesScanned, sources[srcIdx])
    /\ UNCHANGED <<env, webhook, resend, overlap, metrics, input, output, clock, store, runNo, summary, now, allCodes, newCodes,
                   codesForNotification, sIdx, storeAtStart, observed, dispatchVars>>

\* (mutant) the sources of the observation replace the stored ones
MergedRecord_LatestSources(existing, code) ==
    [existing EXCEPT
        !.sources = code.sources,
        !.updatedAt = code.updatedAt,
        !.metadata = Overlay(existing.metadata, code.metadata)]

\* (mutant) the metadata of the observation replaces the stored one
MergedRecord_ReplacesMetadata(existing, code) ==
    [existing EXCEPT
        !.sources = ensureUnique(existing.sources \o code.sources),
        !.updatedAt = code.updatedAt,
        !.metadata = code.metadata]

\* the record an observation of an existing code is merged into
MergedRecord(existing, code) ==
    [existing EXCEPT
        !.sources = ensureUnique(existing.sources \o code.sources),
        !.updatedAt = code.updatedAt,
        !.metadata = Overlay(existing.metadata, code.metadata)]

\* (mutant) the lookup compares the code text with the hash
FindByHash_ByText(xs, hash) == FindIndex(xs, LAMBDA c : c.codeText = hash)

\* allCodes.find((c) => c.hash === code.hash)
FindByHash(xs, hash) == FindIndex(xs, LAMBDA c : c.hash = hash)

\* (mutant) a record that is already stored is never queued
QueueExisting_Never(existing, updated) == FALSE

\* (mutant) the earlier notification is not looked at
QueueExisting_IgnoresNotified(existing, updated) == shouldNotify(updated, now)

\* whether a merged existing record is queued for notification
QueueExisting(existing, updated) ==
    ~Has(existing.metadata.notifiedAt) /\ shouldNotify(updated, now)

\* one iteration of the loop over the fetched codes
MergeCode ==
    /\ UNCHANGED <<sentEver, failures, rejectedBy>>
    /\ pc = "merge"
    /\ pending # <<>>
    /\ LET code == Head(pending)
           index == FindByHash(allCodes, code.hash)
       IN  IF index = 0
           THEN /\ store' = saveCode(store, code)
                /\ allCodes' = Append(allCodes, code)
                /\ newCodes' = Append(newCodes, code)
                /\ codesForNotification' = Append(codesForNotification, code)
           ELSE LET existing == allCodes[index]
                    updated == MergedRecord(existing, code)
                IN  /\ store' = saveCode(store, updated)
                    /\ allCodes' = [allCodes EXCEPT ![index] = updated]
                    /\ newCodes' = newCodes
                    /\ codesForNotification' =
                          IF QueueExisting(existing, updated)
                          THEN Append(codesForNotification, updated)
                          ELSE codesForNotification
    /\ pending' = Tail(pending)
    /\ srcIdx' = IF Tail(pending) = <<>> THEN srcIdx + 1 ELSE srcIdx
    /\ pc' = IF Tail(pending) = <<>> THEN AfterSource(srcIdx) ELSE "merge"
    /\ observed' = observed \cup {<<sources[srcIdx], Head(pending).hash,
                                    Head(pending).expiresAt, Head(pending).rewardType>>}
    /\ UNCHANGED <<env, webhook, resend, overlap, metrics, input, output, clock, runNo, summary, now, sourcesScanned, errors,
                   http429, http5xx, sIdx, storeAtStart, dispatchVars>>

\* saveCode throws in the loop: the catch of the source loop takes it
MergeStoreFails ==
    /\ UNCHANGED <<sentEver, rejectedBy>>
    /\ pc = "merge"
    /\ pending # <<>>
    /\ \E e \in {f \in Failures : f.kind = "other"} : CatchSourceError(e)
    /\ UNCHANGED <<env, webhook, resend, overlap, metrics, input, output, clock, store, runNo, summary, now, allCodes, newCodes,
                   codesForNotification, sourcesScanned, sIdx, storeAtStart,
                   observed, dispatchVars>>


(* -------------------------- notifications.ts -------------------------- *)

Max(a, b) == IF a >= b THEN a ELSE b
Min(a, b) == IF a <= b THEN a ELSE b
\* Math.ceil(a / b) for b > 0
CeilDiv(a, b) == IF a >= 0 THEN (a + b - 1) \div b ELSE -((-a) \div b)

RECURSIVE Pow2(_)
Pow2(k) == IF k = 0 THEN 1 ELSE 2 * Pow2(k - 1)

\* (mutant) no upper clamp
parseRetryAfter_NoCeiling(header) ==
    IF header.kind = "absent" THEN 1
    ELSE IF header.kind = "number" /\ header.n >= 0
         THEN Max(1, CeilDiv(header.n, 10))
    ELSE IF header.kind = "date"
         THEN Max(1, CeilDiv(header.n, 1000))
    ELSE 1

\* parseRetryAfter: seconds to wait, between 1 and 3600.  A negative number
\* goes on to Date.parse, which gives NaN or an instant long past: 1 either way
parseRetryAfter(header) ==
    IF header.kind = "absent" THEN 1
    ELSE IF header.kind = "number" /\ header.n >= 0
         THEN Max(1, Min(3600, CeilDiv(header.n, 10)))
    ELSE IF header.kind = "date"
         THEN Max(1, Min(3600, CeilDiv(header.n, 1000)))
    ELSE 1

\* (mutant) the delay does not grow
BackoffDelay_Constant(k) == BACKOFF_BASE_MS

\* BACKOFF_BASE_MS * 2 ** attempt
BackoffDelay(k) == BACKOFF_BASE_MS * Pow2(k)

\* `HTTP ${response.status}`
HttpError(status) == "HTTP " \o ToString(status)

\* the NotificationLog the dispatcher saves (its random id left out)
NotificationLog(code, status, at, responseStatus, error) ==
    [codeId |-> code.id, status |-> status, destination |-> "DISCORD_WEBHOOK",
     createdAt |-> at, responseStatus |-> responseStatus, error |-> error]

\* dispatchNotifications is entered with the codes queued by the run
DispatchCall ==
    /\ UNCHANGED <<sentEver, failures, rejectedBy>>
    /\ pc = "dispatch"
    /\ codes' = codesForNotification
    /\ result' = [sent |-> 0, attempted |-> Len(codesForNotification),
                  sentRecords |-> <<>>]
    /\ dIdx' = 1
    /\ pc' = "record"
    /\ UNCHANGED <<env, webhook, resend, overlap, metrics, input, output, clock, store, runNo, summary, runVars, timestamp, attempt,
                   delivered, lastResponseStatus, lastError, callLogs, requests,
                   waits, logWriteFailed>>

\* the loop over codes is over (or codes is empty): the result is returned
DispatchReturn ==
    /\ UNCHANGED <<sentEver, failures, rejectedBy>>
    /\ pc = "record"
    /\ dIdx > Len(codes)
    /\ pc' = IF resend = None THEN "applySent" ELSE "resendApply"
    /\ sIdx' = 1
    /\ UNCHANGED <<env, webhook, resend, overlap, metrics, input, output, clock, store, runNo, summary, now, allCodes, newCodes,
                   codesForNotification, srcIdx, pending, sourcesScanned, errors,
                   http429, http5xx, storeAtStart, observed, dispatchVars>>

\* (mutant) the mode is not looked at
Live_IgnoresMode == Has(env.DISCORD_WEBHOOK_URL)

\* whether the dispatcher sends at all
Live == env.MODE = "PROD" /\ Has(env.DISCORD_WEBHOOK_URL)

\* the reason logged when it does not
SkipReason ==
    IF ~Has(env.DISCORD_WEBHOOK_URL) THEN "Webhook URL not configured" ELSE "DRY_RUN_MODE"

\* the head of one iteration of the loop over codes: not live, so a SKIPPED
\* log is saved and the loop continues
RecordSkipped ==
    /\ UNCHANGED <<sentEver, failures>>
    /\ pc = "record"
    /\ dIdx <= Len(codes)
    /\ ~Live
    /\ timestamp' = clock
    /\ clock' = Tick(clock)
    /\ requests' = <<>>
    /\ waits' = <<>>
    /\ \/ /\ callLogs' = Append(callLogs,
                   NotificationLog(codes[dIdx], "SKIPPED", clock, None, Some(SkipReason)))
          /\ pc' = "next"
          /\ UNCHANGED <<logWriteFailed, rejectedBy>>
       \/ /\ logWriteFailed' = TRUE
          /\ pc' = "rejected"
          /\ rejectedBy' = "saveNotificationLog"
          /\ UNCHANGED callLogs
    /\ UNCHANGED <<env, webhook, resend, overlap, metrics, input, output, store, runNo, summary, runVars, codes, dIdx, attempt,
                   delivered, lastResponseStatus, lastError, result>>

\* the head of one iteration of the loop over codes: live, so the attempt
\* loop is entered
RecordBegin ==
    /\ UNCHANGED <<sentEver, failures, rejectedBy>>
    /\ pc = "record"
    /\ dIdx <= Len(codes)
    /\ Live
    /\ timestamp' = clock
    /\ clock' = Tick(clock)
    /\ requests' = <<>>
    /\ waits' = <<>>
    /\ attempt' = 0
    /\ delivered' = FALSE
    /\ lastResponseStatus' = None
    /\ lastError' = None
    /\ pc' = "attempt"
    /\ UNCHANGED <<env, webhook, resend, overlap, metrics, input, output, store, runNo, summary, runVars, codes, dIdx, result,
                   callLogs, logWriteFailed>>


\* response.ok
IsOk(status) == status >= 200 /\ status <= 299

\* (mutant) `continue` without the sleep
RetryAfterSleep_NoSleep(ms, isDelivered) ==
    /\ UNCHANGED waits
    /\ attempt' = attempt + 1
    /\ pc' = IF attempt + 1 < MAX_NOTIFICATION_ATTEMPTS /\ ~isDelivered
             THEN "attempt" ELSE "afterLoop"

\* the body of the attempt loop left by `continue` after sleep(ms)
\* (the loop condition is then evaluated with the new attempt and delivered)
RetryAfterSleep(ms, isDelivered) ==
    /\ waits' = Append(waits, ms)
    /\ attempt' = attempt + 1
    /\ pc' = IF attempt + 1 < MAX_NOTIFICATION_ATTEMPTS /\ ~isDelivered
             THEN "attempt" ELSE "afterLoop"

\* the body of the attempt loop left by `break`
Break ==
    /\ pc' = "afterLoop"
    /\ UNCHANGED <<waits, attempt>>

\* whether attempt k may be followed by another one
MayRetry(k) == k < MAX_NOTIFICATION_ATTEMPTS - 1

\* (mutant) the catch gives up at once
CatchAttemptError_NoRetry(message, isDelivered) ==
    /\ lastError' = Some(message)
    /\ Break

\* the catch of the attempt loop
CatchAttemptError(message, isDelivered) ==
    /\ lastError' = Some(message)
    /\ IF MayRetry(attempt)
       THEN RetryAfterSleep(BackoffDelay(attempt), isDelivered)
       ELSE Break

\* (mutant) client errors are retried too
IsServerError_From400(status) == status >= 400

\* response.status >= 500
IsServerError(status) == status >= 500

\* one iteration of the attempt loop: the request and what follows its answer
Respond(r) ==
    /\ requests' = Append(requests, r)
    /\ IF r.kind = "throws"
       THEN /\ CatchAttemptError(r.message, FALSE)
            /\ UNCHANGED <<lastResponseStatus, delivered, result, callLogs, logWriteFailed>>
       ELSE /\ lastResponseStatus' = Some(r.status)
            /\ IF IsOk(r.status)
               THEN /\ delivered' = TRUE
                    /\ result' = [result EXCEPT
                          !.sent = @ + 1,
                          !.sentRecords = Append(@, [codeId |-> codes[dIdx].id,
                                                     sentAt |-> timestamp])]
                    /\ \/ /\ callLogs' = Append(callLogs,
                                NotificationLog(codes[dIdx], "SENT", timestamp,
                                                Some(r.status), None))
                          /\ Break
                          /\ UNCHANGED <<lastError, logWriteFailed>>
                       \/ /\ logWriteFailed' = TRUE
                          /\ CatchAttemptError("R2 put failed", TRUE)
                          /\ UNCHANGED callLogs
               ELSE /\ UNCHANGED <<delivered, result, callLogs, logWriteFailed>>
                    /\ IF r.status = 429
                       THEN IF MayRetry(attempt)
                            THEN /\ RetryAfterSleep(parseRetryAfter(r.retryAfter) * 1000, FALSE)
                                 /\ UNCHANGED lastError
                            ELSE /\ lastError' = Some("HTTP 429")
                                 /\ Break
                       ELSE IF IsServerError(r.status) /\ MayRetry(attempt)
                            THEN /\ RetryAfterSleep(BackoffDelay(attempt), FALSE)
                                 /\ UNCHANGED lastError
                            ELSE /\ lastError' = Some(HttpError(r.status))
                                 /\ Break

Attempt ==
    /\ UNCHANGED <<sentEver, failures, rejectedBy>>
    /\ pc = "attempt"
    /\ attempt < MAX_NOTIFICATION_ATTEMPTS
    /\ ~delivered
    /\ \E r \in webhook : Respond(r)
    /\ UNCHANGED <<env, webhook, resend, overlap, metrics, input, output, clock, store, runNo, summary, runVars, codes, dIdx, timestamp>>

\* the SKIPPED log of a record that was not delivered
SkippedLog ==
    NotificationLog(codes[dIdx], "SKIPPED", timestamp, lastResponseStatus,
                    IF Has(lastError) THEN lastError ELSE Some("Unknown error"))

\* (mutant) the SKIPPED log is saved whether delivered or not
LogsAfterLoop_Always == Append(callLogs, SkippedLog)

\* if (!delivered) saveNotificationLog(...)
LogsAfterLoop == IF delivered THEN callLogs ELSE Append(callLogs, SkippedLog)

\* after the attempt loop: a SKIPPED log unless delivered, then the next code
AfterLoop ==
    /\ UNCHANGED <<sentEver, failures>>
    /\ pc = "afterLoop"
    /\ \/ /\ callLogs' = LogsAfterLoop
          /\ pc' = "next"
          /\ UNCHANGED <<logWriteFailed, rejectedBy>>
       \/ /\ ~delivered
          /\ logWriteFailed' = TRUE
          /\ pc' = "rejected"
          /\ rejectedBy' = "saveNotificationLog"
          /\ UNCHANGED callLogs
    /\ UNCHANGED <<env, webhook, resend, overlap, metrics, input, output, clock, store, runNo, summary, runVars, codes, dIdx,
                   timestamp, attempt, delivered, lastResponseStatus, lastError,
                   result, requests, waits>>

\* the iteration for codes[dIdx] is over: its locals go out of scope
NextRecord ==
    /\ UNCHANGED <<sentEver, failures, rejectedBy>>
    /\ pc = "next"
    /\ dIdx' = dIdx + 1
    /\ pc' = "record"
    /\ timestamp' = 0
    /\ attempt' = 0
    /\ delivered' = FALSE
    /\ lastResponseStatus' = None
    /\ lastError' = None
    /\ requests' = <<>>
    /\ waits' = <<>>
    /\ UNCHANGED <<env, webhook, resend, overlap, metrics, input, output, clock, store, runNo, summary, runVars, codes, result,
                   callLogs, logWriteFailed>>

(* -------------------- runMonitor: after the dispatch ------------------ *)

\* allCodes.find((c) => c.id === codeId)
FindById(xs, id) == FindIndex(xs, LAMBDA c : c.id = id)

\* the record with notifiedAt overlaid
WithNotifiedAt(code, sentAt) ==
    [code EXCEPT !.metadata = [@ EXCEPT !.notifiedAt = Some(sentAt)]]

\* one iteration of the loop over sentRecords
ApplySent ==
    /\ UNCHANGED <<sentEver, failures, rejectedBy>>
    /\ pc = "applySent"
    /\ sIdx <= Len(result.sentRecords)
    /\ LET rec == result.sentRecords[sIdx]
           index == FindById(allCodes, rec.codeId)
       IN  IF index = 0
           THEN UNCHANGED <<store, allCodes>>
           ELSE LET updated == WithNotifiedAt(allCodes[index], rec.sentAt)
                IN  /\ store' = saveCode(store, updated)
                    /\ allCodes' = [allCodes EXCEPT ![index] = updated]
    /\ sIdx' = sIdx + 1
    /\ UNCHANGED <<env, webhook, resend, overlap, metrics, input, output, clock, runNo, pc, summary, now, newCodes, codesForNotification,
                   srcIdx, pending, sourcesScanned, errors, http429, http5xx,
                   storeAtStart, observed, dispatchVars>>

\* saveCode throws in the loop over sentRecords: runMonitor rejects
ApplySentStoreFails ==
    /\ rejectedBy' = "saveCode"
    /\ UNCHANGED <<sentEver, failures>>
    /\ pc = "applySent"
    /\ sIdx <= Len(result.sentRecords)
    /\ FindById(allCodes, result.sentRecords[sIdx].codeId) # 0
    /\ pc' = "rejected"
    /\ UNCHANGED <<env, webhook, resend, overlap, metrics, input, output, clock, store, runNo, summary, runVars, dispatchVars>>

\* (mutant) the total counts the codes stored at the start only
Finish_TotalAtStart ==
    /\ sentEver' = sentEver \cup {result.sentRecords[i].codeId : i \in 1..Len(result.sentRecords)}
    /\ UNCHANGED <<failures, rejectedBy>>
    /\ pc = "applySent"
    /\ sIdx > Len(result.sentRecords)
    /\ summary' = Some([runAt |-> now,
                        totalCodes |-> Len(allCodes) - Len(newCodes),
                        newCodes |-> Len(newCodes),
                        duplicatesSkipped |-> Len(allCodes) - Len(newCodes),
                        notificationsSent |-> result.sent,
                        errors |-> errors,
                        http429 |-> http429,
                        http5xx |-> http5xx,
                        sourcesScanned |-> sourcesScanned])
    /\ pc' = "returned"
    /\ UNCHANGED <<env, webhook, resend, overlap, metrics, input, output, clock, store, runNo, runVars, dispatchVars>>

\* the MonitorResult is computed and returned
Finish ==
    /\ sentEver' = sentEver \cup {result.sentRecords[i].codeId : i \in 1..Len(result.sentRecords)}
    /\ UNCHANGED <<failures, rejectedBy>>
    /\ pc = "applySent"
    /\ sIdx > Len(result.sentRecords)
    /\ summary' = Some([runAt |-> now,
                        totalCodes |-> Len(allCodes),
                        newCodes |-> Len(newCodes),
                        duplicatesSkipped |-> Len(allCodes) - Len(newCodes),
                        notificationsSent |-> result.sent,
                        errors |-> errors,
                        http429 |-> http429,
                        http5xx |-> http5xx,
                        sourcesScanned |-> sourcesScanned])
    /\ pc' = "returned"
    /\ UNCHANGED <<env, webhook, resend, overlap, metrics, input, output, clock, store, runNo, runVars, dispatchVars>>

(* ------------------------------ Spec ---------------------------------- *)

Next ==
    \/ StartRun
    \/ StartRunStoreFails
    \/ FetchOk
    \/ FetchFails
    \/ MergeCode
    \/ MergeStoreFails
    \/ DispatchCall
    \/ DispatchReturn
    \/ RecordSkipped
    \/ RecordBegin
    \/ Attempt
    \/ AfterLoop
    \/ NextRecord
    \/ ApplySent
    \/ ApplySentStoreFails
    \/ Finish

Spec == Init /\ [][Next]_vars

(* ------------------ dispatchNotifications on its own ------------------ *)

\* length of the list the dispatcher is called with
MaxDispatch == 2

\* the records the dispatcher is called with: it reads their id only
DispatchCodes ==
    {draftToShiftCode("OFFICIAL_SITE",
                      [codeText |-> t, status |-> "Active", expiresAt |-> None,
                       rewardType |-> "Unknown", notes |-> None],
                      0, <<0, 1, IF t = "AAAAA-AAAAA-AAAAA-AAAAA-AAAAA" THEN 1 ELSE 2>>) :
        t \in CodeTexts}

\* a call of dispatchNotifications with any list of records, any
\* configuration and every answer of the webhook
InitDispatch ==
    /\ env \in Envs
    /\ webhook = WebhookResponses
    /\ pc = "dispatch"
    /\ codesForNotification \in SeqsUpTo(DispatchCodes, MaxDispatch)
    /\ input = <<>>
    /\ output = <<>>
    /\ InitLocals
    /\ overlap = None

NextDispatch ==
    \/ DispatchCall
    \/ RecordSkipped
    \/ RecordBegin
    \/ Attempt
    \/ AfterLoop
    \/ NextRecord
    \/ DispatchReturn

SpecDispatch == InitDispatch /\ [][NextDispatch]_vars

(* --------------------- functions applied on their own ----------------- *)

\* the variables of the runs and of the dispatcher
programVars == <<env, webhook, clock, store, runNo, runVars, dispatchVars, summary,
                 metrics, sentEver, failures, rejectedBy, resend, overlap>>

\* nothing is deployed: only a function is applied to an argument
InitPure ==
    /\ env = [MODE |-> "DRY_RUN", DISCORD_WEBHOOK_URL |-> None, urls |-> {}]
    /\ webhook = {}
    /\ pc = "pure"
    /\ codesForNotification = <<>>
    /\ output = None
    /\ InitLocals
    /\ overlap = None

\* the instants shouldNotify is evaluated at, and the expiries, go up to here
MaxInstant == 3

\* the records shouldNotify is applied to: any status, any fallback mark
\* (or none), no expiry or one at any instant
NotifyCandidates ==
    {[draftToShiftCode("OFFICIAL_SITE",
                       [codeText |-> "AAAAA-AAAAA-AAAAA-AAAAA-AAAAA", status |-> st,
                        expiresAt |-> ex, rewardType |-> "Unknown", notes |-> None],
                       0, <<0, 0, 1>>)
        EXCEPT !.metadata = [@ EXCEPT !.isFallback = fb]] :
        st \in {"Active", "Expired", "Hold"},
        ex \in {None} \cup {Some(t) : t \in 0..MaxInstant},
        fb \in {None, Some(FALSE), Some(TRUE)}}

InitShouldNotify ==
    /\ input \in [code : NotifyCandidates, now : 0..MaxInstant]
    /\ InitPure

\* shouldNotify(code, now) is evaluated
ApplyShouldNotify ==
    /\ pc = "pure"
    /\ output' = Some(shouldNotify(input.code, input.now))
    /\ pc' = "applied"
    /\ UNCHANGED <<programVars, input>>

SpecShouldNotify == InitShouldNotify /\ [][ApplyShouldNotify]_vars

(* ------------------------- draftsToShiftCodes ------------------------- *)

\* number of drafts in one batch
MaxDrafts == 3

\* SHIFT_CODE_PATTERN.test(normalized)
IsShiftCode(text) == text \in CodeTexts

\* the drafts of a batch: the first code with every mix of reward, expiry
\* and notes (the entries that expire at 1 name another url), the second
\* code with nothing but its url, and a draft whose code does not match the
\* pattern
Drafts ==
    {[code |-> "AAAAA-AAAAA-AAAAA-AAAAA-AAAAA", rewardType |-> r, expiresAt |-> e,
      url |-> IF e = Some(1) THEN Some("https://feed.example/b")
              ELSE Some("https://feed.example/a"),
      notes |-> n] :
        r \in {"Unknown", "Golden Key", "Skin"},
        e \in {None, Some(1), Some(2)},
        n \in {None, Some("note 1"), Some("note 2")}}
        \cup [code : {"BBBBB-BBBBB-BBBBB-BBBBB-BBBBB"}, rewardType : {"Unknown"},
               expiresAt : {None}, url : {Some("https://feed.example/b")},
               notes : {None}]
        \cup [code : {"NOT-A-CODE"}, rewardType : {"Golden Key"},
               expiresAt : {Some(1)}, url : {Some("https://feed.example/a")},
               notes : {Some("note 1")}]

\* draftToShiftCode for the k-th draft of a batch, its url kept
DraftRecord(sourceName, draft, collectedAt, k) ==
    [draftToShiftCode(sourceName,
                      [codeText |-> draft.code, status |-> "Active",
                       expiresAt |-> draft.expiresAt, rewardType |-> draft.rewardType,
                       notes |-> draft.notes],
                      collectedAt, <<0, 0, k>>)
        EXCEPT !.metadata = [@ EXCEPT !.url = draft.url]]

\* results.filter(Boolean): the records of the drafts whose code matches
RECURSIVE ValidRecords(_, _, _, _)
ValidRecords(sourceName, drafts, collectedAt, k) ==
    IF k > Len(drafts) THEN <<>>
    ELSE LET rest == ValidRecords(sourceName, drafts, collectedAt, k + 1)
         IN  IF IsShiftCode(drafts[k].code)
             THEN <<DraftRecord(sourceName, drafts[k], collectedAt, k)>> \o rest
             ELSE rest

\* (mutant) the later draft's values overwrite the earlier ones
MergeDraft_LastWins(existing, code) ==
    [existing EXCEPT
        !.sources = ensureUnique(existing.sources \o code.sources),
        !.rewardType = IF code.rewardType # "Unknown" THEN code.rewardType ELSE @,
        !.expiresAt = IF Has(code.expiresAt) THEN code.expiresAt ELSE @,
        !.metadata = [@ EXCEPT
            !.url = IF Has(code.metadata.url) THEN code.metadata.url ELSE @,
            !.notes = IF Has(code.metadata.notes) THEN code.metadata.notes ELSE @]]

\* the branch `if (existing)` of the loop over results
MergeDraft(existing, code) ==
    [existing EXCEPT
        !.sources = ensureUnique(existing.sources \o code.sources),
        !.rewardType = IF existing.rewardType = "Unknown" THEN code.rewardType ELSE @,
        !.expiresAt = IF ~Has(existing.expiresAt) /\ Has(code.expiresAt)
                      THEN code.expiresAt ELSE @,
        !.metadata = [@ EXCEPT
            !.url = IF ~Has(existing.metadata.url) /\ Has(code.metadata.url)
                    THEN code.metadata.url ELSE @,
            !.notes = IF ~Has(existing.metadata.notes) /\ Has(code.metadata.notes)
                      THEN code.metadata.notes ELSE @]]

\* the loop over results: deduped is the Map's values in insertion order
RECURSIVE Dedupe(_, _)
Dedupe(results, deduped) ==
    IF results = <<>> THEN deduped
    ELSE LET code == Head(results)
             index == FindByHash(deduped, code.hash)
         IN  Dedupe(Tail(results),
                    IF index = 0 THEN Append(deduped, code)
                    ELSE [deduped EXCEPT ![index] = MergeDraft(deduped[index], code)])

\* draftsToShiftCodes
draftsToShiftCodes(sourceName, drafts, collectedAt) ==
    Dedupe(ValidRecords(sourceName, drafts, collectedAt, 1), <<>>)

InitReduce ==
    /\ input \in SeqsUpTo(Drafts, MaxDrafts)
    /\ InitPure

\* draftsToShiftCodes is applied to the batch of one fetch
ApplyReduce ==
    /\ pc = "pure"
    /\ output' = draftsToShiftCodes("OFFICIAL_SITE", input, 0)
    /\ pc' = "applied"
    /\ UNCHANGED <<programVars, input>>

SpecReduce == InitReduce /\ [][ApplyReduce]_vars

(* ------------------------- normalizeShiftCode ------------------------- *)

\* length of a raw code string
MaxRawLen == 4

\* the characters of a raw code string (a string is the sequence of its
\* characters): a lower-case and an upper-case letter, a digit, the hyphen,
\* a space, the en dash U+2013 and a character of no other class
Chars == {"a", "A", "5", "-", " ", "U+2013", "!"}

\* \s
IsSpace(c) == c = " "
\* [A-Z0-9-] under the flag i
IsCodeChar(c) == c \in {"a", "A", "5", "-"}

\* String.prototype.trim
RECURSIVE TrimStart(_)
TrimStart(xs) ==
    IF xs # <<>> /\ IsSpace(Head(xs)) THEN TrimStart(Tail(xs)) ELSE xs

RECURSIVE TrimEnd(_)
TrimEnd(xs) ==
    IF xs # <<>> /\ IsSpace(xs[Len(xs)]) THEN TrimEnd(SubSeq(xs, 1, Len(xs) - 1)) ELSE xs

Trim(xs) == TrimEnd(TrimStart(xs))

\* replace(/[\u2013\u2014\u2015]/g, '-')
ReplaceDashes(xs) == [k \in 1..Len(xs) |-> IF xs[k] = "U+2013" THEN "-" ELSE xs[k]]

\* replace(/X+/g, '-') for a class X of characters: each run becomes one hyphen
RECURSIVE ReplaceRuns(_, _)
ReplaceRuns(xs, X) ==
    IF xs = <<>> THEN <<>>
    ELSE IF Head(xs) \in X
         THEN IF Len(xs) > 1 /\ xs[2] \in X
              THEN ReplaceRuns(Tail(xs), X)
              ELSE <<"-">> \o ReplaceRuns(Tail(xs), X)
         ELSE <<Head(xs)>> \o ReplaceRuns(Tail(xs), X)

\* replace(/[^A-Z0-9-]/gi, '')
RECURSIVE RemoveOthers(_)
RemoveOthers(xs) ==
    IF xs = <<>> THEN <<>>
    ELSE IF IsCodeChar(Head(xs)) THEN <<Head(xs)>> \o RemoveOthers(Tail(xs))
         ELSE RemoveOthers(Tail(xs))

\* toUpperCase
ToUpperCase(xs) == [k \in 1..Len(xs) |-> IF xs[k] = "a" THEN "A" ELSE xs[k]]

\* (mutant) the runs of hyphens are collapsed before the other characters
\* are removed
normalizeShiftCode_CollapseFirst(raw) ==
    LET trimmed == Trim(raw)
    IN  IF trimmed = <<>> THEN <<>>
        ELSE ToUpperCase(
                 RemoveOthers(
                     ReplaceRuns(
                         ReplaceRuns(ReplaceDashes(trimmed), {c \in Chars : IsSpace(c)}),
                         {"-"})))

\* normalizeShiftCode
normalizeShiftCode(raw) ==
    LET trimmed == Trim(raw)
    IN  IF trimmed = <<>> THEN <<>>
        ELSE ToUpperCase(
                 ReplaceRuns(
                     RemoveOthers(
                         ReplaceRuns(ReplaceDashes(trimmed), {c \in Chars : IsSpace(c)})),
                     {"-"}))

InitNormalize ==
    /\ input \in SeqsUpTo(Chars, MaxRawLen)
    /\ InitPure

\* normalizeShiftCode is applied to a raw string
ApplyNormalize ==
    /\ pc = "pure"
    /\ output' = normalizeShiftCode(input)
    /\ pc' = "applied"
    /\ UNCHANGED <<programVars, input>>

SpecNormalize == InitNormalize /\ [][ApplyNormalize]_vars

(* ---------------- draftToShiftCode from the raw text on ---------------- *)

CODE_TITLE == "BL4"

\* the string of a sequence of characters
RECURSIVE Text(_)
Text(xs) == IF xs = <<>> THEN "" ELSE Head(xs) \o Text(Tail(xs))

\* [A-Z0-9]
IsUpperAlnum(c) == c \in {"A", "5"}

\* SHIFT_CODE_PATTERN.test(xs): five groups of five, a hyphen between them
MatchesShiftCodePattern(xs) ==
    /\ Len(xs) = 29
    /\ \A k \in 1..Len(xs) : IF k % 6 = 0 THEN xs[k] = "-" ELSE IsUpperAlnum(xs[k])

\* toLowerCase on the letters of the status texts
toLowerCase(xs) ==
    [k \in 1..Len(xs) |->
        CASE xs[k] = "A" -> "a" [] xs[k] = "C" -> "c" [] xs[k] = "D" -> "d"
          [] xs[k] = "E" -> "e" [] xs[k] = "H" -> "h" [] xs[k] = "I" -> "i"
          [] xs[k] = "L" -> "l" [] xs[k] = "O" -> "o" [] xs[k] = "P" -> "p"
          [] xs[k] = "R" -> "r" [] xs[k] = "T" -> "t" [] xs[k] = "V" -> "v"
          [] xs[k] = "X" -> "x" [] OTHER -> xs[k]]

\* STATUS_LOOKUP[key] on a plain object: the three own keys, and the keys
\* every object inherits from Object.prototype (of these only `constructor`
\* and `__proto__` are lower-case), whose values are not statuses
STATUS_LOOKUP(key) ==
    CASE key = "active" -> Some("Active")
      [] key = "expired" -> Some("Expired")
      [] key = "hold" -> Some("Hold")
      [] key = "constructor" -> Some("[Function: Object]")
      [] key = "__proto__" -> Some("[Object: null prototype]")
      [] OTHER -> None

\* sanitizeStatus
sanitizeStatus(value) ==
    IF value = None \/ Val(value) = <<>> THEN "Active"
    ELSE LET normalized == Text(toLowerCase(Trim(Val(value))))
         IN  IF Has(STATUS_LOOKUP(normalized)) THEN Val(STATUS_LOOKUP(normalized))
             ELSE "Active"

\* (mutant) the hash is taken of the text as the draft spells it
DraftToShiftCodeOrNull_HashesRaw(sourceName, draft, collectedAt, id) ==
    LET normalized == normalizeShiftCode(draft.code)
    IN  IF ~MatchesShiftCodePattern(normalized) THEN None
        ELSE Some([draftToShiftCode(sourceName,
                                    [codeText |-> Text(normalized),
                                     status |-> sanitizeStatus(draft.status),
                                     expiresAt |-> draft.expiresAt,
                                     rewardType |-> draft.rewardType,
                                     notes |-> draft.notes],
                                    collectedAt, id)
                      EXCEPT !.hash = hashCode(CODE_TITLE \o ":" \o Text(draft.code))])

\* draftToShiftCode with its first steps: the code is normalized and tested
\* against the pattern (null if it does not match), the status sanitized
DraftToShiftCodeOrNull(sourceName, draft, collectedAt, id) ==
    LET normalized == normalizeShiftCode(draft.code)
    IN  IF ~MatchesShiftCodePattern(normalized) THEN None
        ELSE Some(draftToShiftCode(sourceName,
                                   [codeText |-> Text(normalized),
                                    status |-> sanitizeStatus(draft.status),
                                    expiresAt |-> draft.expiresAt,
                                    rewardType |-> draft.rewardType,
                                    notes |-> draft.notes],
                                   collectedAt, id))

\* a raw code: five groups of one character, a separator between them and
\* padding around
Group(c) == <<c, c, c, c, c>>
RawCode(c, sep, pad) ==
    pad \o Group(c) \o sep \o Group(c) \o sep \o Group(c) \o sep \o Group(c)
        \o sep \o Group(c) \o pad

\* the spellings of a code: upper or lower case; hyphens, en dashes, spaces,
\* doubled hyphens, a stray character next to the hyphen, or no separator at
\* all; with or without a space around
RawCodes ==
    {RawCode(c, sep, pad) :
        c \in {"A", "a", "5"},
        sep \in {<<"-">>, <<"U+2013">>, <<" ">>, <<"-", "-">>, <<"!", "-">>, <<>>},
        pad \in {<<>>, <<" ">>}}

\* the status texts of a draft: absent, empty, the three statuses in several
\* spellings, an unknown word, and the name of an inherited property
StatusTexts ==
    {None, Some(<<>>),
     Some(<<"a", "c", "t", "i", "v", "e">>),
     Some(<<"A", "c", "t", "i", "v", "e">>),
     Some(<<"e", "x", "p", "i", "r", "e", "d">>),
     Some(<<" ", "E", "X", "P", "I", "R", "E", "D", " ">>),
     Some(<<"h", "o", "l", "d">>),
     Some(<<"H", "o", "l", "d">>),
     Some(<<"p", "a", "i", "d">>),
     Some(<<"c", "o", "n", "s", "t", "r", "u", "c", "t", "o", "r">>)}

\* the drafts draftToShiftCode is applied to, with the source they come
\* from: every spelling of a code from two sources, and every status text
\* on two spellings of one code
RawDrafts ==
    [source : {"OFFICIAL_SITE", "COMMUNITY_AUX"},
     draft : [code : RawCodes, status : {None}, expiresAt : {None},
              rewardType : {"Unknown"}, notes : {None}]]
        \cup [source : {"OFFICIAL_X"},
               draft : [code : {RawCode("A", <<"-">>, <<>>), RawCode("a", <<"U+2013">>, <<" ">>)},
                        status : StatusTexts, expiresAt : {Some(1)},
                        rewardType : {"Golden Key"}, notes : {None}]]

InitCanonicalize ==
    /\ input \in [first : RawDrafts, second : RawDrafts]
    /\ InitPure

\* draftToShiftCode is applied to two drafts
ApplyCanonicalize ==
    /\ pc = "pure"
    /\ output' = [first |-> DraftToShiftCodeOrNull(input.first.source, input.first.draft,
                                                    0, <<0, 0, 1>>),
                  second |-> DraftToShiftCodeOrNull(input.second.source, input.second.draft,
                                                     0, <<0, 0, 2>>)]
    /\ pc' = "applied"
    /\ UNCHANGED <<programVars, input>>

SpecCanonicalize == InitCanonicalize /\ [][ApplyCanonicalize]_vars

(* ------------------- the merge in either order of sources -------------- *)

\* number of sources on the record stored before the two observations
MaxStoredSources == 2

\* (mutant) the sources of the observation replace the stored ones
MergeObserved_LatestSources(known, code) ==
    IF known = None THEN Some(code)
    ELSE Some([MergedRecord(Val(known), code) EXCEPT !.sources = code.sources])

\* the body of the loop over the fetched codes, for the record known under
\* the code's hash (or none): the code is inserted, or merged into it
MergeObserved(known, code) ==
    IF known = None THEN Some(code)
    ELSE Some(MergedRecord(Val(known), code))

\* what may be stored under the hash before: nothing, or a record that
\* names some sources
StoredBefore ==
    {None} \cup
    {Some([draftToShiftCode("OFFICIAL_SITE",
                            [codeText |-> "AAAAA-AAAAA-AAAAA-AAAAA-AAAAA",
                             status |-> "Active", expiresAt |-> None,
                             rewardType |-> "Unknown", notes |-> None],
                            0, <<0, 1, 1>>)
              EXCEPT !.sources = s]) :
        s \in {t \in SeqsUpTo(Range(SOURCE_ORDER), MaxStoredSources) :
                  t # <<>> /\ \A i, j \in 1..Len(t) : t[i] = t[j] => i = j}}

\* one code, observed by source x and by source y
InitMergeOrder ==
    /\ input \in [stored : StoredBefore, x : Range(SOURCE_ORDER), y : Range(SOURCE_ORDER)]
    /\ InitPure

\* the two observations are merged in both orders, against the store and
\* in the reducer of one batch
ApplyMergeOrder ==
    /\ pc = "pure"
    /\ LET obs == [codeText |-> "AAAAA-AAAAA-AAAAA-AAAAA-AAAAA", status |-> "Active",
                   expiresAt |-> None, rewardType |-> "Unknown", notes |-> None]
           cx == draftToShiftCode(input.x, obs, 1, <<1, 1, 1>>)
           cy == draftToShiftCode(input.y, obs, 1, <<1, 2, 1>>)
       IN  output' = [storeXY |-> Val(MergeObserved(MergeObserved(input.stored, cx), cy)),
                      storeYX |-> Val(MergeObserved(MergeObserved(input.stored, cy), cx)),
                      batchXY |-> Dedupe(<<cx, cy>>, <<>>),
                      batchYX |-> Dedupe(<<cy, cx>>, <<>>)]
    /\ pc' = "applied"
    /\ UNCHANGED <<programVars, input>>

SpecMergeOrder == InitMergeOrder /\ [][ApplyMergeOrder]_vars

(* ------------------------- resendNotifications ------------------------ *)

\* the largest limit a resend is requested with
MaxLimit == 1

\* ResendOptions: each option given or not
ResendOptions ==
    [codeIds : {None, Some({}), Some({<<0, 1, 1>>, <<9, 9, 9>>})},
     statuses : {None, Some(<<>>), Some(<<"Expired">>), Some(<<"Active", "Hold", "Expired">>)},
     limit : {None} \cup {Some(n) : n \in 0..MaxLimit},
     includeFallback : BOOLEAN,
     includeExpired : BOOLEAN]

\* the buckets a resend is requested over: a first code with any status,
\* fallback mark, expiry (none, past, at the instant of the call, ahead) and
\* earlier notification, alone or with a second code that is Active and
\* was updated before or after it
ResendStores ==
    LET first ==
            {[draftToShiftCode("OFFICIAL_SITE",
                               [codeText |-> "AAAAA-AAAAA-AAAAA-AAAAA-AAAAA", status |-> st,
                                expiresAt |-> ex, rewardType |-> "Unknown", notes |-> None],
                               -3, <<0, 1, 1>>)
                EXCEPT !.metadata = [@ EXCEPT !.isFallback = Some(fb), !.notifiedAt = na]] :
                st \in {"Active", "Expired", "Hold"},
                ex \in {None, Some(-1), Some(0), Some(1)},
                fb \in BOOLEAN,
                na \in {None, Some(-2)}}
        second ==
            {draftToShiftCode("MEDIA_TRUSTED",
                              [codeText |-> "BBBBB-BBBBB-BBBBB-BBBBB-BBBBB", status |-> "Active",
                               expiresAt |-> None, rewardType |-> "Golden Key",
                               notes |-> Some("seen in the article")],
                              at, <<0, 1, 2>>) : at \in {-4, -2}}
    IN  {{a} : a \in first} \cup {{a, b} : a \in first, b \in second}

\* (mutant) a code that was notified before is not selected
ResendFilter_SkipsNotified(code, options, at) ==
    /\ ~Has(code.metadata.notifiedAt)
    /\ ~(~options.includeFallback /\ Has(code.metadata.isFallback)
            /\ Val(code.metadata.isFallback))
    /\ ~(~options.includeExpired /\ Has(code.expiresAt) /\ Val(code.expiresAt) <= at)
    /\ ~(Has(options.codeIds) /\ code.id \notin Val(options.codeIds))
    /\ LET statuses == IF Has(options.statuses) /\ Len(Val(options.statuses)) > 0
                       THEN Val(options.statuses) ELSE <<"Active">>
       IN  \E i \in 1..Len(statuses) : statuses[i] = code.status

\* the callback of allCodes.filter in resendNotifications
ResendFilter(code, options, at) ==
    /\ ~(~options.includeFallback /\ Has(code.metadata.isFallback)
            /\ Val(code.metadata.isFallback))
    /\ ~(~options.includeExpired /\ Has(code.expiresAt) /\ Val(code.expiresAt) <= at)
    /\ ~(Has(options.codeIds) /\ code.id \notin Val(options.codeIds))
    /\ LET statuses == IF Has(options.statuses) /\ Len(Val(options.statuses)) > 0
                       THEN Val(options.statuses) ELSE <<"Active">>
       IN  \E i \in 1..Len(statuses) : statuses[i] = code.status

\* selected: the filter over listCodes, cut to the limit if there is one
ResendSelected(options, at) ==
    LET filtered == SelectSeq(listCodes, LAMBDA c : ResendFilter(c, options, at))
        limit == IF Has(options.limit) /\ Val(options.limit) > 0 THEN options.limit ELSE None
    IN  IF Has(limit) /\ Len(filtered) > Val(limit)
        THEN SubSeq(filtered, 1, Val(limit))
        ELSE filtered

\* notificationCandidates: the selected codes with notifiedAt cleared
ResendCandidates(selected) ==
    [k \in 1..Len(selected) |->
        [selected[k] EXCEPT !.metadata = [@ EXCEPT !.notifiedAt = None]]]

\* getCodeById
getCodeById(objects, id) ==
    IF \E c \in objects : c.id = id THEN Some(CHOOSE c \in objects : c.id = id) ELSE None

\* (mutant) the resend stamps updatedAt too
ResendStored_StampsUpdatedAt(stored, sentAt) ==
    [WithNotifiedAt(stored, sentAt) EXCEPT !.updatedAt = sentAt]

\* the record saved for a sent code: the stored one with notifiedAt
ResendStored(stored, sentAt) == WithNotifiedAt(stored, sentAt)

\* resendNotifications up to its dispatch call (or to its early return when
\* nothing is selected)
ResendCall ==
    /\ pc = "resend"
    /\ \E options \in ResendOptions :
         LET selected == ResendSelected(options, clock)
         IN  /\ resend' = [options |-> options, selected |-> selected, calledAt |-> clock]
             /\ allCodes' = listCodes
             /\ codesForNotification' = ResendCandidates(selected)
             /\ IF selected = <<>>
                THEN /\ output' = Some([requested |-> 0, attempted |-> 0, sent |-> 0,
                                        skipped |-> 0])
                     /\ pc' = "resendReturned"
                ELSE /\ output' = output
                     /\ pc' = "dispatch"
    /\ clock' = Tick(clock)
    /\ storeAtStart' = store
    /\ UNCHANGED <<env, webhook, overlap, store, runNo, now, newCodes, srcIdx, pending,
                   sourcesScanned, errors, http429, http5xx, sIdx, observed,
                   dispatchVars, summary, metrics, sentEver, failures, rejectedBy, input>>

\* listCodes throws: resendNotifications rejects
ResendCallStoreFails ==
    /\ pc = "resend"
    /\ pc' = "rejected"
    /\ rejectedBy' = "listCodes"
    /\ UNCHANGED <<env, webhook, overlap, clock, store, runNo, runVars, dispatchVars, summary,
                   metrics, sentEver, failures, input, output, resend>>

\* one iteration of the loop over dispatchResult.sentRecords
ResendApplySent ==
    /\ pc = "resendApply"
    /\ sIdx <= Len(result.sentRecords)
    /\ LET rec == result.sentRecords[sIdx]
           stored == getCodeById(store, rec.codeId)
       IN  store' = IF stored = None THEN store
                    ELSE saveCode(store, ResendStored(Val(stored), rec.sentAt))
    /\ sIdx' = sIdx + 1
    /\ UNCHANGED <<env, webhook, overlap, clock, runNo, pc, now, allCodes, newCodes,
                   codesForNotification, srcIdx, pending, sourcesScanned, errors,
                   http429, http5xx, storeAtStart, observed, dispatchVars, summary,
                   metrics, sentEver, failures, rejectedBy, input, output, resend>>

\* getCodeById or saveCode throws in that loop: resendNotifications rejects
ResendApplyStoreFails ==
    /\ pc = "resendApply"
    /\ sIdx <= Len(result.sentRecords)
    /\ pc' = "rejected"
    /\ rejectedBy' = "saveCode"
    /\ UNCHANGED <<env, webhook, overlap, clock, store, runNo, runVars, dispatchVars, summary,
                   metrics, sentEver, failures, input, output, resend>>

\* the ResendSummary is returned
ResendReturn ==
    /\ pc = "resendApply"
    /\ sIdx > Len(result.sentRecords)
    /\ output' = Some([requested |-> Len(resend.selected),
                       attempted |-> result.attempted,
                       sent |-> result.sent,
                       skipped |-> result.attempted - result.sent])
    /\ pc' = "resendReturned"
    /\ UNCHANGED <<env, webhook, overlap, clock, store, runNo, runVars, dispatchVars, summary,
                   metrics, sentEver, failures, rejectedBy, input, resend>>

\* POST /notifications/resend: one call of resendNotifications over any of
\* the buckets, with the webhook configured, in either mode
InitResend ==
    /\ env \in {e \in Envs : Has(e.DISCORD_WEBHOOK_URL)}
    /\ webhook = {r \in WebhookResponses : r.kind = "http" /\ r.status \in {200, 400}}
    /\ pc = "resend"
    /\ codesForNotification = <<>>
    /\ input = <<>>
    /\ output = None
    /\ \E objects \in ResendStores : InitLocalsOver(objects)
    /\ overlap = None

NextResend ==
    \/ ResendCall
    \/ ResendCallStoreFails
    \/ DispatchCall
    \/ RecordSkipped
    \/ RecordBegin
    \/ Attempt
    \/ AfterLoop
    \/ NextRecord
    \/ DispatchReturn
    \/ ResendApplySent
    \/ ResendApplyStoreFails
    \/ ResendReturn

SpecResend == InitResend /\ [][NextResend]_vars

(* ----------------------------- fetchJsonFeed --------------------------- *)

\* number of entries in the body of a feed
MaxEntries == 2

\* pickString: the first of the keys whose value is a string that is not
\* blank, trimmed
RECURSIVE pickString(_, _)
pickString(record, keys) ==
    IF keys = <<>> THEN None
    ELSE LET value == record[Head(keys)]
         IN  IF Has(value) /\ Trim(Val(value)) # <<>> THEN Some(Trim(Val(value)))
             ELSE pickString(record, Tail(keys))

\* the entries of a feed: a value that is not an object; objects without a
\* code, with a blank code, with a code too short, with a code under `code`
\* (lower case, en dashes) or under `code_text`, with a status
FeedEntries ==
    {[isObject |-> FALSE, code |-> None, code_text |-> None, status |-> None]}
        \cup [isObject : {TRUE},
               code : {None, Some(<<" ">>), Some(Group("A")),
                       Some(RawCode("a", <<"U+2013">>, <<" ">>))},
               code_text : {None},
               status : {None}]
        \cup [isObject : {TRUE},
               code : {None},
               code_text : {Some(RawCode("5", <<"-">>, <<>>))},
               status : {None, Some(<<"e", "x", "p", "i", "r", "e", "d">>)}]

\* what a feed answers: a status other than 2xx, a body that is not JSON,
\* or a JSON value: an array of entries, an object with the array under
\* `codes`, another object, null or a string
FeedResponses ==
    [ok : {FALSE}, status : FetchFailStatuses, json : {FALSE}, shape : {"none"},
     entries : {<<>>}]
        \cup [ok : {TRUE}, status : {200}, json : {FALSE}, shape : {"none"},
               entries : {<<>>}]
        \cup [ok : {TRUE}, status : {200}, json : {TRUE}, shape : {"array", "codes"},
               entries : SeqsUpTo(FeedEntries, MaxEntries)]
        \cup [ok : {TRUE}, status : {200}, json : {TRUE},
               shape : {"object", "null", "string"}, entries : {<<>>}]

\* the loop over the entries: one draft per object with a resolvable code
RECURSIVE EntryDrafts(_)
EntryDrafts(entries) ==
    IF entries = <<>> THEN <<>>
    ELSE LET rawEntry == Head(entries)
             code == pickString(rawEntry, <<"code", "code_text">>)
         IN  IF ~rawEntry.isObject \/ code = None THEN EntryDrafts(Tail(entries))
             ELSE <<[code |-> Val(code), status |-> pickString(rawEntry, <<"status">>),
                     expiresAt |-> None, rewardType |-> "Unknown", notes |-> None]>>
                      \o EntryDrafts(Tail(entries))

\* draftsToShiftCodes from the raw text on: the drafts that draftToShiftCode
\* gives a record for, one per hash
RECURSIVE ResultsOf(_, _, _, _)
ResultsOf(sourceName, drafts, collectedAt, k) ==
    IF k > Len(drafts) THEN <<>>
    ELSE LET code == DraftToShiftCodeOrNull(sourceName, drafts[k], collectedAt, <<0, 0, k>>)
             rest == ResultsOf(sourceName, drafts, collectedAt, k + 1)
         IN  IF code = None THEN rest ELSE <<Val(code)>> \o rest

\* (mutant) a body of another shape is an error
fetchJsonFeed_ThrowsOnShape(sourceName, response, collectedAt) ==
    IF ~response.ok
    THEN [kind |-> "throws",
          error |-> [kind |-> "http", status |-> response.status, message |-> ""]]
    ELSE IF ~response.json
    THEN [kind |-> "throws",
          error |-> [kind |-> "other", status |-> 0, message |-> "Unexpected token"]]
    ELSE IF response.shape \notin {"array", "codes"}
    THEN [kind |-> "throws",
          error |-> [kind |-> "other", status |-> 0, message |-> "Unexpected feed format"]]
    ELSE [kind |-> "returns",
          codes |-> Dedupe(ResultsOf(sourceName, EntryDrafts(response.entries),
                                     collectedAt, 1), <<>>)]

\* fetchJsonFeed: what it returns or throws for an answer of the feed
fetchJsonFeed(sourceName, response, collectedAt) ==
    IF ~response.ok
    THEN [kind |-> "throws",
          error |-> [kind |-> "http", status |-> response.status, message |-> ""]]
    ELSE IF ~response.json
    THEN [kind |-> "throws",
          error |-> [kind |-> "other", status |-> 0, message |-> "Unexpected token"]]
    ELSE LET entriesRaw == IF response.shape \in {"array", "codes"}
                           THEN response.entries ELSE <<>>
         IN  [kind |-> "returns",
              codes |-> Dedupe(ResultsOf(sourceName, EntryDrafts(entriesRaw),
                                         collectedAt, 1), <<>>)]

InitFetchJsonFeed ==
    /\ input \in [source : {"OFFICIAL_SITE", "OFFICIAL_X", "COMMUNITY_AUX"},
                  response : FeedResponses]
    /\ InitPure

\* fetchJsonFeed is applied to an answer of the feed
ApplyFetchJsonFeed ==
    /\ pc = "pure"
    /\ output' = fetchJsonFeed(input.source, input.response, 0)
    /\ pc' = "applied"
    /\ UNCHANGED <<programVars, input>>

SpecFetchJsonFeed == InitFetchJsonFeed /\ [][ApplyFetchJsonFeed]_vars

(* ------------------------ fetchPcGamerShiftCodes ----------------------- *)

\* the characters taken on each side of a match by extractHtmlSnippet
SnippetWindow == 200

\* the body [A-Z0-9]{5}(?:-[A-Z0-9]{5}){4} of the two code patterns matches
\* the 29 characters of text from index i, under the flag i or not
MatchesAt(text, i, ignoreCase) ==
    /\ i + 28 <= Len(text)
    /\ \A k \in 0..28 :
          IF (k + 1) % 6 = 0 THEN text[i + k] = "-" ELSE IsUpperAlnum(text[i + k]) \/ (ignoreCase /\ text[i + k] = "a")

\* the loop `while ((match = regex.exec(text)) !== null)` of a global regex
\* with that body: the indexes of the matches, each search starting where
\* the match before ended.  With anchors (^ and $, no flag m) a match has to
\* start at the start of the text and end at its end.
RECURSIVE ExecAll(_, _, _, _)
ExecAll(text, lastIndex, anchored, ignoreCase) ==
    LET found == {i \in lastIndex..Len(text) :
                     /\ MatchesAt(text, i, ignoreCase)
                     /\ anchored => (i = 1 /\ i + 28 = Len(text))}
    IN  IF found = {} THEN <<>>
        ELSE LET index == CHOOSE i \in found : \A j \in found : i <= j
             IN  <<index>> \o ExecAll(text, index + 29, anchored, ignoreCase)

\* stripHtml on a text without tags or entities collapses the runs of white
\* space to one space each and then trims the ends: the first of the two
RECURSIVE CollapseSpaces(_)
CollapseSpaces(xs) ==
    IF xs = <<>> THEN <<>>
    ELSE IF IsSpace(Head(xs)) /\ Len(xs) > 1 /\ IsSpace(xs[2]) THEN CollapseSpaces(Tail(xs))
    ELSE <<Head(xs)>> \o CollapseSpaces(Tail(xs))

\* extractHtmlSnippet (index counted from 1)
extractHtmlSnippet(html, index, length) ==
    LET start == Max(1, index - SnippetWindow)
        end == Min(Len(html), index + length - 1 + SnippetWindow)
        snippet == Trim(CollapseSpaces(SubSeq(html, start, end)))
    IN  IF snippet = <<>> THEN None ELSE Some(snippet)

\* the drafts of the rows of the captioned table: a row that is not a head
\* row and has three cells gives one draft per code in its third cell
RECURSIVE TableDrafts(_, _)
TableDrafts(rows, url) ==
    IF rows = <<>> THEN <<>>
    ELSE LET row == Head(rows)
             rest == TableDrafts(Tail(rows), url)
             candidates == ExecAll(row.cells[3], 1, FALSE, FALSE)
         IN  IF row.isHead \/ Len(row.cells) < 3 THEN rest
             ELSE [k \in 1..Len(candidates) |->
                      [code |-> SubSeq(row.cells[3], candidates[k], candidates[k] + 28),
                       rewardType |-> row.cells[2], status |-> "Active",
                       expiresAt |-> Some(row.cells[1]),
                       notes |-> Some(row.cells[1] \o <<" ">> \o row.cells[2]),
                       url |-> url]] \o rest

\* the drafts of the scan of the whole document with
\* new RegExp(SHIFT_CODE_PATTERN.source, 'gi'): the source keeps ^ and $
ScanDrafts(html, url) ==
    LET matches == ExecAll(html, 1, TRUE, TRUE)
    IN  [k \in 1..Len(matches) |->
            [code |-> SubSeq(html, matches[k], matches[k] + 28),
             rewardType |-> <<"U", "n", "k", "n", "o", "w", "n">>, status |-> "Active",
             expiresAt |-> None,
             notes |-> extractHtmlSnippet(html, matches[k], 29),
             url |-> url]]

\* the drafts fetchPcGamerShiftCodes collects from an article: those of
\* the table if there are any, else those of the scan
ArticleDrafts(article, url) ==
    LET drafts == IF article.rows = None THEN <<>> ELSE TableDrafts(Val(article.rows), url)
    IN  IF drafts = <<>> THEN ScanDrafts(article.html, url) ELSE drafts

\* the articles: no captioned table, an empty one or one of a single row
\* (a head row, a row of two cells, a row whose third cell holds no code,
\* one whose third cell holds a code); and a text that holds no code, one
\* code or two, in upper or lower case, alone or with other text before,
\* between and after
Articles ==
    LET one == RawCode("A", <<"-">>, <<>>)
        TableRows ==
            {[isHead |-> TRUE, cells |-> <<<<"5">>, <<"A">>, one>>],
             [isHead |-> FALSE, cells |-> <<<<"5">>, one>>],
             [isHead |-> FALSE, cells |-> <<<<"5">>, <<"A">>, <<"!">>>>],
             [isHead |-> FALSE, cells |-> <<<<"5">>, <<"A">>, <<"!">> \o one>>]}
    IN
    [rows : {None} \cup {Some(rs) : rs \in SeqsUpTo(TableRows, 1)},
     html : {pre \o code \o post :
                pre \in {<<>>, <<"!">>, <<" ", "!", " ", " ">>},
                code \in {<<>>, RawCode("A", <<"-">>, <<>>), RawCode("a", <<"-">>, <<>>),
                          RawCode("5", <<"-">>, <<>>)},
                post \in {<<>>, <<"!">>, <<" ">> \o RawCode("5", <<"-">>, <<>>)}}]

InitArticle ==
    /\ input \in Articles
    /\ InitPure

\* the drafts of an article are collected
ApplyArticle ==
    /\ pc = "pure"
    /\ output' = ArticleDrafts(input, "https://media.example/article")
    /\ pc' = "applied"
    /\ UNCHANGED <<programVars, input>>

SpecArticle == InitArticle /\ [][ApplyArticle]_vars

(* ---------------------- two runs at the same time ---------------------- *)

\* what the runs of this section leave alone: the one run and the one
\* dispatch call of the sections above are not in progress
overlapFrame == <<env, webhook, runNo, pc, runVars, dispatchVars, summary, metrics,
                  sentEver, failures, rejectedBy, input, output, resend>>

\* the feeds a source answers with while two runs overlap: fetches succeed,
\* and the entries carry a code and a status and nothing else
OverlapFeeds(sourceName) ==
    {f \in FeedsOf(sourceName) :
        \A i \in 1..Len(f) : f[i].rewardType = "Unknown" /\ f[i].expiresAt = None}

\* scheduled() and POST /monitor/run both call runMonitor, and nothing keeps
\* the second call from starting before the first has returned: each run
\* has its own now, allCodes, newCodes, codesForNotification and sentRecords
InitOverlap ==
    /\ env \in Envs
    /\ webhook = RunWebhookResponses
    /\ pc = "overlap"
    /\ codesForNotification = <<>>
    /\ input = <<>>
    /\ output = <<>>
    /\ InitLocals
    /\ overlap = [runs |-> [r \in {"scheduled", "manual"} |->
                               [pc |-> "idle", now |-> 0, allCodes |-> <<>>,
                                newCodes |-> <<>>, codesForNotification |-> <<>>,
                                srcIdx |-> 0, pending |-> <<>>,
                                sentRecords |-> <<>>, sIdx |-> 0]],
                  stamped |-> {},
                  overlapped |-> FALSE]

\* runMonitor up to the source loop, for the run r; a history flag records
\* that the other run was then in progress
OverlapStart(r) ==
    /\ overlap # None
    /\ overlap.runs[r].pc = "idle"
    /\ overlap' = [overlap EXCEPT
                      !.runs[r] = [@ EXCEPT !.pc = AfterSource(0),
                                            !.now = clock,
                                            !.allCodes = listCodes,
                                            !.srcIdx = 1],
                      !.overlapped = @ \/ \E o \in DOMAIN overlap.runs :
                                              overlap.runs[o].pc \notin {"idle", "returned"}]
    /\ clock' = Tick(clock)
    /\ UNCHANGED <<store, overlapFrame>>

\* fetchFromSource returns the codes of the source to the run r
OverlapFetch(r) ==
    /\ overlap # None
    /\ overlap.runs[r].pc = "fetch"
    /\ LET l == overlap.runs[r]
           n == IF r = "scheduled" THEN 1 ELSE 2
       IN  \E feed \in OverlapFeeds(sources[l.srcIdx]) :
               overlap' = [overlap EXCEPT !.runs[r] =
                   [l EXCEPT
                       !.pending = [k \in 1..Len(feed) |->
                                       draftToShiftCode(sources[l.srcIdx], feed[k], clock,
                                                        <<n, l.srcIdx, k>>)],
                       !.srcIdx = IF feed = <<>> THEN l.srcIdx + 1 ELSE l.srcIdx,
                       !.pc = IF feed = <<>> THEN AfterSource(l.srcIdx) ELSE "merge"]]
    /\ UNCHANGED <<clock, store, overlapFrame>>

\* one iteration of the loop over the fetched codes, in the run r
OverlapMerge(r) ==
    /\ overlap # None
    /\ overlap.runs[r].pc = "merge"
    /\ LET l == overlap.runs[r]
           code == Head(l.pending)
           index == FindByHash(l.allCodes, code.hash)
           existing == l.allCodes[index]
           updated == MergedRecord(existing, code)
           saved == IF index = 0 THEN code ELSE updated
           after == [l EXCEPT
                        !.pending = Tail(l.pending),
                        !.srcIdx = IF Tail(l.pending) = <<>> THEN l.srcIdx + 1 ELSE l.srcIdx,
                        !.pc = IF Tail(l.pending) = <<>> THEN AfterSource(l.srcIdx)
                               ELSE "merge"]
       IN  /\ store' = saveCode(store, saved)
           /\ overlap' = [overlap EXCEPT !.runs[r] =
                 IF index = 0
                 THEN [after EXCEPT
                          !.allCodes = Append(l.allCodes, code),
                          !.newCodes = Append(l.newCodes, code),
                          !.codesForNotification = Append(l.codesForNotification, code)]
                 ELSE [after EXCEPT
                          !.allCodes = [l.allCodes EXCEPT ![index] = updated],
                          !.codesForNotification =
                              IF ~Has(existing.metadata.notifiedAt)
                                    /\ shouldNotify(updated, l.now)
                              THEN Append(l.codesForNotification, updated)
                              ELSE l.codesForNotification]]
    /\ UNCHANGED <<clock, overlapFrame>>

\* dispatchNotifications called by the run r and returned: the records of
\* the list that were delivered are reported in sentRecords, in the order
\* of the list (none when the deliveries are not live)
OverlapDispatch(r) ==
    /\ overlap # None
    /\ overlap.runs[r].pc = "dispatch"
    /\ LET l == overlap.runs[r]
           queued == 1..Len(l.codesForNotification)
       IN  \E sent \in (IF Live THEN SUBSET queued ELSE {{}}) :
               overlap' = [overlap EXCEPT !.runs[r] =
                   [l EXCEPT
                       !.sentRecords =
                           [k \in 1..Cardinality(sent) |->
                               [codeId |-> l.codesForNotification[
                                    CHOOSE i \in sent :
                                        Cardinality({j \in sent : j < i}) = k - 1].id,
                                sentAt |-> clock]],
                       !.sIdx = 1,
                       !.pc = "applySent"]]
    /\ clock' = Tick(clock)
    /\ UNCHANGED <<store, overlapFrame>>

\* one iteration of the loop over sentRecords, in the run r; a history set
\* keeps the ids of the records a notifiedAt was written to
OverlapApplySent(r) ==
    /\ overlap # None
    /\ overlap.runs[r].pc = "applySent"
    /\ overlap.runs[r].sIdx <= Len(overlap.runs[r].sentRecords)
    /\ LET l == overlap.runs[r]
           rec == l.sentRecords[l.sIdx]
           index == FindById(l.allCodes, rec.codeId)
           updated == WithNotifiedAt(l.allCodes[index], rec.sentAt)
       IN  IF index = 0
           THEN /\ overlap' = [overlap EXCEPT !.runs[r].sIdx = @ + 1]
                /\ UNCHANGED store
           ELSE /\ store' = saveCode(store, updated)
                /\ overlap' = [overlap EXCEPT
                                  !.runs[r].sIdx = @ + 1,
                                  !.runs[r].allCodes = [@ EXCEPT ![index] = updated],
                                  !.stamped = @ \cup {rec.codeId}]
    /\ UNCHANGED <<clock, overlapFrame>>

\* the run r returns its MonitorResult
OverlapFinish(r) ==
    /\ overlap # None
    /\ overlap.runs[r].pc = "applySent"
    /\ overlap.runs[r].sIdx > Len(overlap.runs[r].sentRecords)
    /\ overlap' = [overlap EXCEPT !.runs[r].pc = "returned"]
    /\ UNCHANGED <<clock, store, overlapFrame>>

NextOverlap ==
    \E r \in {"scheduled", "manual"} :
        \/ OverlapStart(r)
        \/ OverlapFetch(r)
        \/ OverlapMerge(r)
        \/ OverlapDispatch(r)
        \/ OverlapApplySent(r)
        \/ OverlapFinish(r)

SpecOverlap == InitOverlap /\ [][NextOverlap]_vars

(* ------------------------ runs that are scheduled --------------------- *)

\* a step of the run or of the dispatch call in progress: every await of
\* runMonitor and of dispatchNotifications is of a fetch, a sleep or a store
\* call, and each of these returns or throws
RunStep ==
    \/ FetchOk
    \/ FetchFails
    \/ MergeCode
    \/ MergeStoreFails
    \/ DispatchCall
    \/ DispatchReturn
    \/ RecordSkipped
    \/ RecordBegin
    \/ Attempt
    \/ AfterLoop
    \/ NextRecord
    \/ ApplySent
    \/ ApplySentStoreFails
    \/ Finish

\* the worker before its last run: the bucket is empty, or holds a code
\* that an earlier run stored from the first source and sent or did not
InitLive ==
    /\ env \in Envs
    /\ webhook = RunWebhookResponses
    /\ pc = "idle"
    /\ codesForNotification = <<>>
    /\ input = <<>>
    /\ output = <<>>
    /\ overlap = None
    /\ \E obs \in {o \in Observations : o.codeText = "AAAAA-AAAAA-AAAAA-AAAAA-AAAAA"
                                           /\ o.notes = None} :
          LET stored == draftToShiftCode("OFFICIAL_SITE", obs, 0, <<0, 1, 1>>)
          IN  \E objects \in {{}, {stored}, {WithNotifiedAt(stored, 0)}} :
                  InitLocalsAfter(objects, MaxRuns - 1)

\* the last run, which always takes its next step
SpecLive == InitLive /\ [][Next]_vars /\ WF_vars(RunStep)

(* --------------------------- getCodeByHash ----------------------------- *)

\* getCodeByHash -> getCodeById(env, hash) -> loadShiftCode: the object under
\* the key codes/<hash>.json, that is the stored code whose id is, as a
\* string, the hash; the ids are the UUIDs draftToShiftCode draws
getCodeByHash(objects, hash) ==
    LET found == {c \in objects : "uuid:" \o ToString(c.id) = hash}
    IN  IF found = {} THEN None ELSE Some(CHOOSE c \in found : TRUE)

(* ============================== claims =============================== *)

\* the positions of a run at which a dispatch call is in progress or returned
InDispatch == pc \in {"record", "attempt", "afterLoop", "next", "applySent"}
\* the positions at which requests and waits are those of codes[dIdx]
InRecord == pc \in {"attempt", "afterLoop", "next"}

\* eligibility as the specification words it
Eligible(r, at) ==
    /\ r.status = "Active"
    /\ r.metadata.isFallback # Some(TRUE)
    /\ (r.expiresAt = None \/ Val(r.expiresAt) > at)

\* C1: every record handed to the dispatcher by a run is eligible at the run
\* instant (Active, not fallback, no expiry or an expiry after the instant),
\* the records inserted in this run included.
C1_DispatchedAreEligible ==
    InDispatch => \A i \in 1..Len(codes) : Eligible(codes[i], now)

\* C2: the store holds at most one record per identity hash, and a code
\* merged from a source in this run is stored in a record (the only one of
\* its hash) whose sources contain that source: two sources yielding one
\* code end with one record naming both.
C2_OneRecordPerHash ==
    /\ \A a, b \in store : a.hash = b.hash => a = b
    /\ \A o \in observed :
         \E r \in store : r.hash = o[2] /\ o[1] \in Range(r.sources)

\* C2 witness: a run has returned in which two sources yielded a code that
\* was not stored before, and one record of two sources holds it.
C2_Witness ==
    /\ pc = "returned"
    /\ \E r \in store :
         /\ \A q \in storeAtStart : q.hash # r.hash
         /\ \E o \in observed : o[1] = "OFFICIAL_SITE" /\ o[2] = r.hash
         /\ \E o \in observed : o[1] = "MEDIA_TRUSTED" /\ o[2] = r.hash
         /\ r.sources = <<"OFFICIAL_SITE", "MEDIA_TRUSTED">>
         /\ Cardinality({q \in store : q.hash = r.hash}) = 1

(* --- the dispatcher: what is read off a record's requests and waits --- *)

\* live mode with a webhook configured, as the specification words it
LiveMode == env.MODE = "PROD" /\ env.DISCORD_WEBHOOK_URL # None

\* the index (0-based) and the answer of the latest request for codes[dIdx]
LastIndex == Len(requests) - 1
LastAnswer == requests[Len(requests)]
\* the latest log the call has saved
LastLog == callLogs[Len(callLogs)]

Is2xx(r) == r.kind = "http" /\ r.status \in 200..299
Is429(r) == r.kind = "http" /\ r.status = 429
Is5xx(r) == r.kind = "http" /\ r.status \in 500..599
IsOtherStatus(r) == r.kind = "http" /\ ~Is2xx(r) /\ ~Is429(r) /\ ~Is5xx(r)
IsException(r) == r.kind = "throws"

\* the reason 'HTTP <status>' of the statuses the webhook answers with
ReasonOf(status) ==
    CASE status = 400 -> "HTTP 400"
      [] status = 404 -> "HTTP 404"
      [] status = 429 -> "HTTP 429"
      [] status = 500 -> "HTTP 500"
      [] status = 503 -> "HTTP 503"
      [] OTHER -> "HTTP ?"

\* 1000ms x 2^k for the attempt indexes that are followed by a wait
ExpectedBackoff(k) == IF k = 0 THEN 1000 ELSE 2000

\* n seconds clamped to [1, 3600]
Clamp(n) == IF n < 1 THEN 1 ELSE IF n > 3600 THEN 3600 ELSE n

\* the record's delivery ended without a send and its SKIPPED log was saved
\* with this reason
SkippedWith(reason) ==
    pc = "next" =>
        /\ LastLog.codeId = codes[dIdx].id
        /\ LastLog.status = "SKIPPED"
        /\ LastLog.error = Some(reason)
        /\ LastLog.createdAt = timestamp

\* C3: while the log writes succeed, the call has saved exactly one log per
\* record it is done with and none for the record in progress (retried
\* attempts save nothing); the log is that record's, and it is SENT exactly
\* when one of the record's requests was answered 2xx, SKIPPED otherwise.
C3_OneLogPerRecord ==
    (InDispatch /\ ~logWriteFailed) =>
        /\ Len(callLogs) =
              (dIdx - 1) + (IF pc = "next" \/ (pc = "afterLoop" /\ delivered) THEN 1 ELSE 0)
        /\ \A i \in 1..Len(callLogs) :
              /\ callLogs[i].codeId = codes[i].id
              /\ callLogs[i].status \in {"SENT", "SKIPPED"}
        /\ pc = "next" =>
              (callLogs[dIdx].status = "SENT"
                  <=> \E k \in 1..Len(requests) : Is2xx(requests[k]))

\* C3 witness: the second record of a call was answered 429, then an
\* exception, then 200, and has exactly one log, SENT.
C3_Witness ==
    /\ pc = "next"
    /\ ~logWriteFailed
    /\ dIdx = 2
    /\ Len(requests) = 3
    /\ Is429(requests[1])
    /\ IsException(requests[2])
    /\ Is2xx(requests[3])
    /\ Len(callLogs) = 2
    /\ callLogs[2].status = "SENT"

\* C4: in live mode a record gets at most 3 requests whatever the mix of
\* 429, 5xx and exceptions; a request is issued only when every earlier one
\* of the record was answered and followed by its wait; no request follows
\* a 2xx answer.
C4_AttemptBudget ==
    (InRecord /\ LiveMode) =>
        /\ Len(requests) <= 3
        /\ Len(waits) \in {Len(requests) - 1, Len(requests)}
        /\ pc = "attempt" =>
              /\ Len(requests) < 3
              /\ Len(waits) = Len(requests)
              /\ attempt = Len(requests)
        /\ \A k \in 1..(Len(requests) - 1) : ~Is2xx(requests[k])

\* C4 witness: a record was answered 429, an exception and 503: three
\* requests, two waits, and the attempt loop is over.
C4_Witness ==
    /\ pc = "afterLoop"
    /\ LiveMode
    /\ Len(requests) = 3
    /\ Is429(requests[1])
    /\ IsException(requests[2])
    /\ Is5xx(requests[3])
    /\ Len(waits) = 2
    /\ ~delivered

\* C5: when the mode is not PROD or no webhook URL is configured, a run's
\* dispatch issues no request, waits for nothing and reports sent = 0 and no
\* sentRecords; each record gets one SKIPPED log whose reason is 'Webhook URL
\* not configured' without a URL and 'DRY_RUN_MODE' with one; no stored
\* record has notifiedAt.
C5_NotLiveSkips ==
    ~LiveMode =>
        /\ requests = <<>>
        /\ waits = <<>>
        /\ result.sent = 0
        /\ result.sentRecords = <<>>
        /\ \A r \in store : r.metadata.notifiedAt = None
        /\ \A i \in 1..Len(callLogs) :
              /\ callLogs[i].status = "SKIPPED"
              /\ callLogs[i].responseStatus = None
              /\ callLogs[i].error =
                    Some(IF env.DISCORD_WEBHOOK_URL = None
                         THEN "Webhook URL not configured" ELSE "DRY_RUN_MODE")
        /\ (InDispatch /\ ~logWriteFailed) =>
              /\ Len(callLogs) = (dIdx - 1) + (IF pc = "next" THEN 1 ELSE 0)
              /\ \A i \in 1..Len(callLogs) : callLogs[i].codeId = codes[i].id

\* C5 witness: a run in DRY_RUN mode with a webhook URL has returned after
\* dispatching two records; both logs are SKIPPED with DRY_RUN_MODE.
C5_Witness ==
    /\ pc = "returned"
    /\ env.MODE = "DRY_RUN"
    /\ env.DISCORD_WEBHOOK_URL # None
    /\ Len(codes) = 2
    /\ Len(callLogs) = 2
    /\ callLogs[2].error = Some("DRY_RUN_MODE")
    /\ store # {}

\* C6: a 5xx answer at attempt index k (every earlier request of the record
\* counted) is followed by a wait of 1000ms x 2^k and another attempt when
\* k < 2; at k = 2 there is no wait and the record is logged SKIPPED with
\* 'HTTP <status>'.  500 three times: waits 1000, 2000 and SKIPPED 'HTTP 500'.
C6_ServerErrorBackoff ==
    (InRecord /\ requests # <<>> /\ Is5xx(LastAnswer)) =>
        IF LastIndex < 2
        THEN /\ pc = "attempt"
             /\ Len(waits) = LastIndex + 1
             /\ waits[LastIndex + 1] = ExpectedBackoff(LastIndex)
        ELSE /\ pc \in {"afterLoop", "next"}
             /\ Len(waits) = 2
             /\ lastError = Some(ReasonOf(LastAnswer.status))
             /\ lastResponseStatus = Some(LastAnswer.status)
             /\ SkippedWith(ReasonOf(LastAnswer.status))

\* C6 witness: 500 on all three attempts, waits of 1000 and 2000, and the
\* SKIPPED log with 'HTTP 500' is saved.
C6_Witness ==
    /\ pc = "next"
    /\ Len(requests) = 3
    /\ \A k \in 1..3 : requests[k].kind = "http" /\ requests[k].status = 500
    /\ waits = <<1000, 2000>>
    /\ LastLog.status = "SKIPPED"
    /\ LastLog.error = Some("HTTP 500")

\* C7: a 429 answer before the third attempt is followed by a wait of the
\* Retry-After seconds clamped to [1, 3600] (1 when the header is absent or
\* unparsable, max(1, min(3600, n)) for integer seconds n) and another
\* attempt; a 429 on the third attempt is logged SKIPPED with 'HTTP 429'.
\* 429 with Retry-After: 2, then 200: a wait of 2000ms and one SENT log.
C7_RateLimited ==
    /\ (InRecord /\ requests # <<>> /\ Is429(LastAnswer)) =>
          IF LastIndex < 2
          THEN LET header == LastAnswer.retryAfter
                   waited == waits[LastIndex + 1]
               IN  /\ pc = "attempt"
                   /\ Len(waits) = LastIndex + 1
                   /\ waited >= 1000 /\ waited <= 3600000
                   /\ header.kind \in {"absent", "junk"} => waited = 1000
                   /\ (header.kind = "number" /\ header.n >= 0 /\ header.n % 10 = 0) =>
                         waited = 1000 * Clamp(header.n \div 10)
          ELSE /\ pc \in {"afterLoop", "next"}
               /\ Len(waits) = 2
               /\ lastError = Some("HTTP 429")
               /\ lastResponseStatus = Some(429)
               /\ SkippedWith("HTTP 429")
    /\ (/\ pc = "next"
        /\ ~logWriteFailed
        /\ Len(requests) = 2
        /\ Is429(requests[1])
        /\ requests[1].retryAfter = [kind |-> "number", n |-> 20]
        /\ Is2xx(requests[2])) =>
          /\ waits = <<2000>>
          /\ Len(callLogs) = dIdx
          /\ LastLog.status = "SENT"
          /\ LastLog.codeId = codes[dIdx].id

\* C7 witness: 429 with Retry-After: 2, then 200; the record has waited
\* 2000ms once and its one log is SENT.
C7_Witness ==
    /\ pc = "next"
    /\ dIdx = 1
    /\ Len(requests) = 2
    /\ Is429(requests[1])
    /\ requests[1].retryAfter = [kind |-> "number", n |-> 20]
    /\ Is2xx(requests[2])
    /\ waits = <<2000>>
    /\ Len(callLogs) = 1
    /\ callLogs[1].status = "SENT"

\* C8: an answer that is neither 2xx, 429 nor 5xx is the record's last
\* request: no wait follows it, and the record is logged SKIPPED with
\* 'HTTP <status>' and that response status.
C8_ClientErrorEnds ==
    InRecord =>
        \A k \in 1..Len(requests) :
            IsOtherStatus(requests[k]) =>
                /\ k = Len(requests)
                /\ pc \in {"afterLoop", "next"}
                /\ Len(waits) = k - 1
                /\ lastError = Some(ReasonOf(requests[k].status))
                /\ lastResponseStatus = Some(requests[k].status)
                /\ SkippedWith(ReasonOf(requests[k].status))
                /\ pc = "next" => LastLog.responseStatus = Some(requests[k].status)

\* C8 witness: the first request of a record was answered 404; no wait, and
\* the SKIPPED log with 'HTTP 404' and status 404 is saved.
C8_Witness ==
    /\ pc = "next"
    /\ Len(requests) = 1
    /\ requests[1].kind = "http"
    /\ requests[1].status = 404
    /\ waits = <<>>
    /\ LastLog.status = "SKIPPED"
    /\ LastLog.error = Some("HTTP 404")
    /\ LastLog.responseStatus = Some(404)

\* C9: an exception of the request at attempt index k < 2 is followed by a
\* wait of 1000ms x 2^k and another attempt; on the third attempt it ends the
\* delivery with a SKIPPED log whose reason is the exception's message.  The
\* call rejects only when a log write fails, and when it returns the loop
\* has gone through every record.
C9_TransportException ==
    /\ (InRecord /\ requests # <<>> /\ IsException(LastAnswer)) =>
          /\ lastError = Some(LastAnswer.message)
          /\ IF LastIndex < 2
             THEN /\ pc = "attempt"
                  /\ Len(waits) = LastIndex + 1
                  /\ waits[LastIndex + 1] = ExpectedBackoff(LastIndex)
             ELSE /\ pc \in {"afterLoop", "next"}
                  /\ Len(waits) = 2
                  /\ SkippedWith(LastAnswer.message)
    /\ pc = "rejected" => logWriteFailed
    /\ pc = "applySent" =>
          /\ dIdx = Len(codes) + 1
          /\ ~logWriteFailed => Len(callLogs) = Len(codes)

\* C9 witness: the first record's third attempt threw and it was logged
\* SKIPPED with the message; the second record was then delivered after two
\* retried exceptions.
C9_Witness ==
    /\ pc = "next"
    /\ dIdx = 2
    /\ Len(callLogs) = 2
    /\ callLogs[1].status = "SKIPPED"
    /\ callLogs[1].error = Some("fetch failed")
    /\ Len(requests) = 3
    /\ IsException(requests[1])
    /\ IsException(requests[2])
    /\ Is2xx(requests[3])
    /\ waits = <<1000, 2000>>
    /\ callLogs[2].status = "SENT"

(* ------------------- the run after its dispatch call ------------------ *)

\* notifiedAt of the record with this id in a set of stored records
NotifiedAtIn(objects, id) ==
    IF \E q \in objects : q.id = id
    THEN (CHOOSE q \in objects : q.id = id).metadata.notifiedAt
    ELSE None

\* the sources a hash was merged from in this run
ObservedSources(hash) == {o[1] : o \in {p \in observed : p[2] = hash}}

\* C10: when a run has returned, a record the dispatcher reported sent is
\* stored with notifiedAt equal to the reported timestamp and with the
\* sources merged in the run; a record logged SKIPPED has the notifiedAt it
\* had when the run started; before the loop over sentRecords no stored
\* notifiedAt differs from the one at the start of the run.
C10_NotifiedAtFollowsOutcome ==
    /\ pc = "returned" =>
          /\ \A i \in 1..Len(result.sentRecords) :
                \E r \in store :
                    /\ r.id = result.sentRecords[i].codeId
                    /\ r.metadata.notifiedAt = Some(result.sentRecords[i].sentAt)
                    /\ ObservedSources(r.hash) \subseteq Range(r.sources)
          /\ \A i \in 1..Len(callLogs) :
                callLogs[i].status = "SKIPPED" =>
                    NotifiedAtIn(store, callLogs[i].codeId)
                        = NotifiedAtIn(storeAtStart, callLogs[i].codeId)
    /\ pc \in {"fetch", "merge", "dispatch", "record", "attempt", "afterLoop", "next"} =>
          \A r \in store : r.metadata.notifiedAt = NotifiedAtIn(storeAtStart, r.id)

\* the same statement for the runs that dispatch no record twice
C10_WhenDispatchedOnce ==
    (\A i, j \in 1..Len(codes) : codes[i].id = codes[j].id => i = j)
        => C10_NotifiedAtFollowsOutcome

(* -------------------------- runs after a send ------------------------- *)

\* the ids of the records stored when the run started
StartIds == {r.id : r \in storeAtStart}

\* C11: a record that was stored before the run is handed to the dispatcher
\* only if its stored notifiedAt was absent and the merged record is eligible
\* at the run instant; a record reported sent by a run that has returned
\* keeps its notifiedAt and is in no later run's dispatch list.
C11_NotifiedNotRequeued ==
    /\ InDispatch =>
          \A i \in 1..Len(codes) :
              /\ codes[i].id \notin sentEver
              /\ codes[i].id \in StartIds =>
                    /\ NotifiedAtIn(storeAtStart, codes[i].id) = None
                    /\ Eligible(codes[i], now)
    /\ \A id \in sentEver : NotifiedAtIn(store, id) # None

\* C11 witness: a second run has observed again a code that an earlier run
\* sent; the record is still Active and unexpired, and the dispatcher was
\* not given it.
C11_Witness ==
    /\ pc = "applySent"
    /\ runNo = 2
    /\ \E r \in store :
          /\ r.id \in sentEver
          /\ r.id \in StartIds
          /\ \E o \in observed : o[2] = r.hash
          /\ Eligible(r, now)
          /\ \A i \in 1..Len(codes) : codes[i].id # r.id

(* ------------------------ failures of a source ------------------------ *)

\* the positions of a run from the dispatch call on
PastSources == pc = "dispatch" \/ InDispatch \/ pc = "returned"

\* the failures of this run that were failed fetches
FetchFailureIndexes == {i \in 1..Len(failures) : failures[i].pos = "fetch"}

\* C12: a failed fetch adds exactly one to errors and does not end the run:
\* every enabled source is scanned, in order, before the dispatch; what the
\* other sources yielded is stored; a run is rejected only by a failed store
\* call; the summary of a run that returns counts the failures.
C12_FetchFailureIsolated ==
    /\ runNo > 0 /\ rejectedBy # "listCodes" =>
          /\ errors = Len(failures)
          /\ \A i, j \in 1..Len(failures) :
                failures[i].source = failures[j].source => i = j
          /\ \A i \in FetchFailureIndexes : failures[i].source \in Range(sourcesScanned)
          /\ \A o \in observed : \E r \in store : r.hash = o[2]
    /\ pc = "fetch" => sourcesScanned = SubSeq(sources, 1, srcIdx - 1)
    /\ pc = "merge" => sourcesScanned = SubSeq(sources, 1, srcIdx)
    /\ PastSources => sourcesScanned = sources
    /\ pc = "rejected" => rejectedBy # ""
    /\ pc = "returned" =>
          /\ summary # None
          /\ Val(summary).errors = Len(failures)
          /\ Val(summary).sourcesScanned = sources

\* C12 witness: the fetch of the first source failed, the second source was
\* fetched and its code stored, and the run returned its summary with one error.
C12_Witness ==
    /\ pc = "returned"
    /\ Len(failures) = 1
    /\ failures[1].source = "OFFICIAL_SITE"
    /\ failures[1].pos = "fetch"
    /\ \E o \in observed : o[1] = "MEDIA_TRUSTED" /\ \E r \in store : r.hash = o[2]
    /\ Val(summary).errors = 1
    /\ Val(summary).sourcesScanned = <<"OFFICIAL_SITE", "MEDIA_TRUSTED">>

\* the failures of this run whose error is an HTTP status in S
HttpFailures(S) ==
    {i \in 1..Len(failures) :
        failures[i].error.kind = "http" /\ failures[i].error.status \in S}

\* C13: http429 counts the failures with status 429, http5xx those with a
\* status from 500 to 599, and no other failure (404, 451, a non-HTTP
\* error) is counted in either.
C13_FailureClassification ==
    (runNo > 0 /\ rejectedBy # "listCodes") =>
        /\ http429 = Cardinality(HttpFailures({429}))
        /\ http5xx = Cardinality(HttpFailures(500..599))

\* C14: a failed store call ends the run: when saveCode has thrown while a
\* source was merged, the run is rejected (as it is when listCodes or the
\* saveCode after the dispatch throws) and goes on to no other source.
C14_StoreFailureIsFatal ==
    \A i \in 1..Len(failures) : failures[i].pos = "merge" => pc = "rejected"

(* --------------------------- the run summary -------------------------- *)

\* C15: when a run has returned, the latest run summary the store gives
\* (getMetrics) is the summary of that run.
C15_SummaryPersisted ==
    pc = "returned" => getMetrics = summary

(* ------------------------ merging an observation ---------------------- *)

\* C16: no value is lost by a merge: a code observed in this run with an
\* expiry is stored with an expiry, and one observed with a reward other
\* than 'Unknown' is stored with such a reward.
C16_MergeKeepsValues ==
    \A o \in observed :
        \E r \in store :
            /\ r.hash = o[2]
            /\ o[3] # None => r.expiresAt # None
            /\ o[4] # "Unknown" => r.rewardType # "Unknown"

\* the value of a metadata key after an overlay: the new side's when it
\* defines the key, else the existing one
Overlaid(old, new) == IF new # None THEN new ELSE old

\* C17: the step that merges an observation whose hash is stored replaces
\* the stored record by one with the same id and fields, except: sources
\* are the existing ones followed by the observation's source if it is new,
\* updatedAt is the observation's, and url, notes and isFallback are the
\* observation's where it defines them; notifiedAt is the existing one.
\* No other stored record changes.
C17_MergeReplacesRecord ==
    [][(/\ pc = "merge"
        /\ errors' = errors
        /\ \E e \in store : e.hash = Head(pending).hash)
       => LET code == Head(pending)
              existing == CHOOSE e \in store : e.hash = code.hash
          IN  \E r \in store' :
                /\ store' \ {r} = store \ {existing}
                /\ r.id = existing.id
                /\ r.hash = existing.hash
                /\ r.codeText = existing.codeText
                /\ r.title = existing.title
                /\ r.status = existing.status
                /\ r.rewardType = existing.rewardType
                /\ r.expiresAt = existing.expiresAt
                /\ r.firstSeenAt = existing.firstSeenAt
                /\ r.createdAt = existing.createdAt
                /\ r.sources = (IF code.sources[1] \in Range(existing.sources)
                                THEN existing.sources
                                ELSE Append(existing.sources, code.sources[1]))
                /\ r.updatedAt = code.updatedAt
                /\ r.metadata.url = Overlaid(existing.metadata.url, code.metadata.url)
                /\ r.metadata.notes = Overlaid(existing.metadata.notes, code.metadata.notes)
                /\ r.metadata.isFallback =
                      Overlaid(existing.metadata.isFallback, code.metadata.isFallback)
                /\ r.metadata.notifiedAt = existing.metadata.notifiedAt
      ]_vars

\* C17 witness: a record first seen in the article and sent was merged with
\* an observation of the JSON feed in a later run: both sources, the feed's
\* url, the article's notes and the notifiedAt of the send are stored.
C17_Witness ==
    \E r \in store :
        /\ r.sources = <<"MEDIA_TRUSTED", "OFFICIAL_SITE">>
        /\ r.metadata.url = Some("OFFICIAL_SITE")
        /\ r.metadata.notes # None
        /\ r.metadata.notifiedAt # None
        /\ r.updatedAt > r.createdAt

(* ---------------------------- shouldNotify ---------------------------- *)

\* C18: shouldNotify(record, now) is true exactly when the metadata does not
\* mark the record fallback, the status is Active, and there is no expiry
\* or the expiry is strictly after now.
C18_ShouldNotifyIffEligible ==
    pc = "applied" =>
        (Val(output) <=>
            /\ input.code.metadata.isFallback # Some(TRUE)
            /\ input.code.status = "Active"
            /\ \/ input.code.expiresAt = None
               \/ Val(input.code.expiresAt) > input.now)

\* C18 witness: an Active record that is not fallback and expires at the
\* very instant of the evaluation was found not eligible.
C18_Witness ==
    /\ pc = "applied"
    /\ input.code.status = "Active"
    /\ input.code.metadata.isFallback = Some(FALSE)
    /\ input.code.expiresAt = Some(input.now)
    /\ output = Some(FALSE)

(* ------------------------- the draft reducer -------------------------- *)

\* the positions in the batch of the drafts with this code text
DraftsOf(text) == {k \in 1..Len(input) : input[k].code = text}

Least(S) == CHOOSE k \in S : \A j \in S : k <= j

\* the first value other than `empty` that f gives along S, or `empty`
FirstValue(S, f(_), empty) ==
    IF \E k \in S : f(k) # empty
    THEN f(Least({k \in S : f(k) # empty}))
    ELSE empty

\* C19: the reducer returns one record for each code of the batch that
\* matches the pattern, in the order the codes first arrive; the record is
\* the first draft's, with the first reward other than 'Unknown', the first
\* expiry, the first url and the first notes among the drafts of that code.
C19_ReducerKeepsFirst ==
    pc = "applied" =>
        /\ \A i, j \in 1..Len(output) : output[i].hash = output[j].hash => i = j
        /\ {output[i].codeText : i \in 1..Len(output)}
              = {input[k].code : k \in 1..Len(input)} \cap CodeTexts
        /\ \A i, j \in 1..Len(output) :
              i < j => Least(DraftsOf(output[i].codeText)) < Least(DraftsOf(output[j].codeText))
        /\ \A i \in 1..Len(output) :
              LET of == DraftsOf(output[i].codeText)
              IN  /\ output[i].id = <<0, 0, Least(of)>>
                  /\ output[i].sources = <<"OFFICIAL_SITE">>
                  /\ output[i].rewardType =
                        FirstValue(of, LAMBDA k : input[k].rewardType, "Unknown")
                  /\ output[i].expiresAt =
                        FirstValue(of, LAMBDA k : input[k].expiresAt, None)
                  /\ output[i].metadata.url =
                        FirstValue(of, LAMBDA k : input[k].url, None)
                  /\ output[i].metadata.notes =
                        FirstValue(of, LAMBDA k : input[k].notes, None)

\* C19 witness: three drafts of one code, the first without reward, expiry
\* or notes, the second and the third with different ones: one record, with
\* the second draft's values and the first draft's url.
C19_Witness ==
    /\ pc = "applied"
    /\ Len(input) = 3
    /\ \A k \in 1..3 : input[k].code = "AAAAA-AAAAA-AAAAA-AAAAA-AAAAA"
    /\ input[1].rewardType = "Unknown" /\ input[1].expiresAt = None /\ input[1].notes = None
    /\ input[2].rewardType = "Golden Key" /\ input[2].expiresAt = Some(1)
    /\ input[2].notes = Some("note 1")
    /\ input[3].rewardType = "Skin" /\ input[3].expiresAt = Some(2)
    /\ input[3].notes = Some("note 2")
    /\ input[1].url # input[2].url
    /\ Len(output) = 1
    /\ output[1].rewardType = "Golden Key"
    /\ output[1].expiresAt = Some(1)
    /\ output[1].metadata.notes = Some("note 1")
    /\ output[1].metadata.url = input[1].url

(* ---------------------------- normalization --------------------------- *)

\* C20: normalizing a normalized code changes nothing:
\* normalizeShiftCode(normalizeShiftCode(s)) = normalizeShiftCode(s).
C20_NormalizeIdempotent ==
    pc = "applied" => normalizeShiftCode(output) = output

\* C20 witness: a raw string with a lower-case letter, a space next to an en
\* dash and a digit was normalized to A-5.
C20_Witness ==
    /\ pc = "applied"
    /\ input = <<"a", " ", "U+2013", "5">>
    /\ output = <<"A", "-", "5">>

(* ------------------------- the identity hash -------------------------- *)

\* C21: the hash of a record is the hash of the title and the normalized
\* code text and of nothing else: two drafts that both give a record, from
\* any sources and with any status, reward or expiry, have the same hash
\* exactly when their raw code texts normalize to the same string.
C21_HashOfNormalizedText ==
    (pc = "applied" /\ output.first # None /\ output.second # None) =>
        /\ Val(output.first).hash =
              hashCode("BL4:" \o Text(normalizeShiftCode(input.first.draft.code)))
        /\ Val(output.second).hash =
              hashCode("BL4:" \o Text(normalizeShiftCode(input.second.draft.code)))
        /\ (Val(output.first).hash = Val(output.second).hash)
              <=> (normalizeShiftCode(input.first.draft.code)
                      = normalizeShiftCode(input.second.draft.code))

\* C21 witness: a lower-case code with en dashes and spaces around it, from
\* one source, and the same code in upper case with hyphens, from another
\* source and with other fields, were given one hash.
C21_Witness ==
    /\ pc = "applied"
    /\ input.first.draft.code = RawCode("a", <<"U+2013">>, <<" ">>)
    /\ input.first.source = "OFFICIAL_X"
    /\ input.first.draft.status # None
    /\ input.second.draft.code = RawCode("A", <<"-">>, <<>>)
    /\ input.second.source = "COMMUNITY_AUX"
    /\ output.first # None
    /\ output.second # None
    /\ Val(output.first).hash = Val(output.second).hash
    /\ Val(output.first).codeText = "AAAAA-AAAAA-AAAAA-AAAAA-AAAAA"

(* ------------------------- the order of a merge ----------------------- *)

\* C22: for one code observed by source X and by source Y, merging the X
\* observation and then the Y observation leaves the same set of sources
\* as merging Y and then X (the sources known before and X and Y), in the
\* merge against the store and in the reducer of one batch.
C22_MergeCommutesOnSources ==
    pc = "applied" =>
        /\ Range(output.storeXY.sources) = Range(output.storeYX.sources)
        /\ Range(output.storeXY.sources) =
              (IF input.stored = None THEN {} ELSE Range(Val(input.stored).sources))
                  \cup {input.x, input.y}
        /\ Len(output.batchXY) = 1
        /\ Len(output.batchYX) = 1
        /\ Range(output.batchXY[1].sources) = {input.x, input.y}
        /\ Range(output.batchYX[1].sources) = {input.x, input.y}

\* C22 witness: a code stored under one source was observed by two other
\* sources: the two orders give different lists of the same three sources.
C22_Witness ==
    /\ pc = "applied"
    /\ input.stored # None
    /\ Val(input.stored).sources = <<"OFFICIAL_X">>
    /\ input.x = "OFFICIAL_SITE"
    /\ input.y = "MEDIA_TRUSTED"
    /\ output.storeXY.sources = <<"OFFICIAL_X", "OFFICIAL_SITE", "MEDIA_TRUSTED">>
    /\ output.storeYX.sources = <<"OFFICIAL_X", "MEDIA_TRUSTED", "OFFICIAL_SITE">>
    /\ output.batchXY[1].sources = <<"OFFICIAL_SITE", "MEDIA_TRUSTED">>
    /\ output.batchYX[1].sources = <<"MEDIA_TRUSTED", "OFFICIAL_SITE">>

(* ----------------------- sources without a URL ------------------------ *)

\* C23: a source whose feed URL is not configured still contributes to the
\* run: when the run has returned the source is among the sources scanned,
\* and a record marked fallback that names the source is stored.
C23_UnconfiguredSourceContributes ==
    pc = "returned" =>
        \A s \in Range(SOURCE_ORDER) \ env.urls :
            /\ s \in Range(sourcesScanned)
            /\ \E r \in store :
                  s \in Range(r.sources) /\ r.metadata.isFallback = Some(TRUE)

(* --------------------------- manual resend ---------------------------- *)

\* the statuses a resend asks for: those given, or Active when none or an
\* empty list is given
RequestedStatuses(o) ==
    IF o.statuses = None \/ Val(o.statuses) = <<>> THEN {"Active"}
    ELSE Range(Val(o.statuses))

\* the stored records a resend with options o, called at instant `at`,
\* asks for
Requested(o, at) ==
    {r \in storeAtStart :
        /\ r.status \in RequestedStatuses(o)
        /\ o.codeIds # None => r.id \in Val(o.codeIds)
        /\ o.includeFallback \/ r.metadata.isFallback # Some(TRUE)
        /\ o.includeExpired \/ r.expiresAt = None \/ Val(r.expiresAt) > at}

\* the list the dispatcher is or was called with by the resend in progress
ResendDispatched == IF pc = "dispatch" THEN codesForNotification ELSE codes

\* C24: a resend selects exactly the stored records whose status is among
\* the requested ones (Active by default), whose id is among codeIds when
\* codeIds is given, that are not fallback unless includeFallback and not
\* expired at the call unless includeExpired, whether or not they were
\* notified before; with a positive limit it selects that many of them at
\* most; and it dispatches the selected records and no other.
C24_ResendSelection ==
    resend # None =>
        LET o == resend.options
            selected == resend.selected
            asked == Requested(o, resend.calledAt)
        IN  /\ Range(selected) \subseteq asked
            /\ \A i, j \in 1..Len(selected) : selected[i] = selected[j] => i = j
            /\ IF o.limit # None /\ Val(o.limit) > 0
               THEN Len(selected) = Min(Val(o.limit), Cardinality(asked))
               ELSE Range(selected) = asked
            /\ (pc \in {"dispatch", "record", "attempt", "afterLoop", "next", "resendApply"}
                    \/ (pc = "resendReturned" /\ selected # <<>>)) =>
                  /\ Len(ResendDispatched) = Len(selected)
                  /\ \A k \in 1..Len(selected) : ResendDispatched[k].id = selected[k].id
            /\ (pc = "resendReturned" /\ selected = <<>>) => codes = <<>>

\* C24 witness: two stored records were asked for with limit 1; the one
\* selected is the latest updated, a fallback record on Hold, expired and
\* notified before, and it was sent again.
C24_Witness ==
    /\ pc = "resendReturned"
    /\ resend.options.limit = Some(1)
    /\ Cardinality(Requested(resend.options, resend.calledAt)) = 2
    /\ Len(resend.selected) = 1
    /\ resend.selected[1].status = "Hold"
    /\ resend.selected[1].metadata.isFallback = Some(TRUE)
    /\ resend.selected[1].expiresAt = Some(-1)
    /\ resend.selected[1].metadata.notifiedAt # None
    /\ Val(output).requested = 1
    /\ Val(output).sent = 1

\* the indexes of the sent reports of the call that name this id
SentReports(id) == {i \in 1..Len(result.sentRecords) : result.sentRecords[i].codeId = id}

\* C25: a resend changes no stored field other than metadata.notifiedAt:
\* it adds and removes no record, and every stored record is the one stored
\* at the call but for its notifiedAt; when the resend has returned, a
\* record reported sent has the reported timestamp as notifiedAt, and
\* every other record (logged SKIPPED, or not selected) is unchanged;
\* nothing is written before the dispatcher returns.
C25_ResendChangesOnlyNotifiedAt ==
    resend # None =>
        /\ {r.id : r \in store} = {q.id : q \in storeAtStart}
        /\ \A r \in store :
              \E q \in storeAtStart :
                  /\ q.id = r.id
                  /\ [r EXCEPT !.metadata = [@ EXCEPT !.notifiedAt = q.metadata.notifiedAt]] = q
        /\ pc \in {"dispatch", "record", "attempt", "afterLoop", "next"} => store = storeAtStart
        /\ pc = "resendReturned" =>
              \A r \in store :
                  IF SentReports(r.id) # {}
                  THEN /\ \A i \in SentReports(r.id) :
                             r.metadata.notifiedAt = Some(result.sentRecords[i].sentAt)
                       /\ \E k \in 1..Len(resend.selected) : resend.selected[k].id = r.id
                  ELSE r \in storeAtStart

\* C25 witness: a resend of two records has returned; the first, notified
\* before, was sent and is stored with the new timestamp and nothing else
\* changed; the second was logged SKIPPED and is stored as it was.
C25_Witness ==
    /\ pc = "resendReturned"
    /\ Len(callLogs) = 2
    /\ callLogs[1].status = "SENT"
    /\ callLogs[2].status = "SKIPPED"
    /\ \E r \in store, q \in storeAtStart :
          /\ r.id = callLogs[1].codeId
          /\ q.id = r.id
          /\ q.metadata.notifiedAt = Some(-2)
          /\ r.metadata.notifiedAt = Some(callLogs[1].createdAt)
          /\ r.updatedAt = q.updatedAt
          /\ r # q
    /\ \E r \in store : r.id = callLogs[2].codeId /\ r \in storeAtStart

(* ----------------------- the order of the sources --------------------- *)

\* the place of a source in the fixed order
OrderOf(s) ==
    CASE s = "OFFICIAL_SITE" -> 1
      [] s = "OFFICIAL_X" -> 2
      [] s = "MEDIA_TRUSTED" -> 3
      [] s = "COMMUNITY_AUX" -> 4

\* the sources the codes merged so far in this run came from
MergedSources == {o[1] : o \in observed}

\* C26: within a run the sources are processed one after the other in the
\* order OFFICIAL_SITE, OFFICIAL_X, MEDIA_TRUSTED, COMMUNITY_AUX: when a
\* source is about to be fetched no code of an earlier source awaits its
\* store write and only earlier sources have been fetched and merged; while
\* a source is merged the codes awaiting are its own; and when the
\* dispatcher is called every enabled source has been fetched, no code
\* awaits its write and every merged code is stored.
C26_SourcesSequential ==
    /\ \A i, j \in 1..Len(sourcesScanned) :
          i < j => OrderOf(sourcesScanned[i]) < OrderOf(sourcesScanned[j])
    /\ pc = "fetch" =>
          /\ pending = <<>>
          /\ srcIdx <= Len(sources)
          /\ Len(sourcesScanned) = srcIdx - 1
          /\ \A s \in MergedSources : OrderOf(s) < OrderOf(sources[srcIdx])
    /\ pc = "merge" =>
          /\ pending # <<>>
          /\ sourcesScanned[Len(sourcesScanned)] = sources[srcIdx]
          /\ \A k \in 1..Len(pending) : pending[k].sources = <<sources[srcIdx]>>
          /\ \A s \in MergedSources : OrderOf(s) <= OrderOf(sources[srcIdx])
    /\ (pc = "dispatch" \/ InDispatch) =>
          /\ pending = <<>>
          /\ Range(sourcesScanned) = env.urls
          /\ \A o \in observed : \E r \in store : r.hash = o[2] /\ o[1] \in Range(r.sources)

\* C26 witness: the dispatcher was called after both sources had been
\* fetched in order and the code of each had been stored.
C26_Witness ==
    /\ pc = "record"
    /\ sourcesScanned = <<"OFFICIAL_SITE", "MEDIA_TRUSTED">>
    /\ MergedSources = {"OFFICIAL_SITE", "MEDIA_TRUSTED"}
    /\ Cardinality(store) = 2
    /\ Len(codes) = 2

(* --------------------------- malformed input -------------------------- *)

\* the code text of a feed entry, if it resolves to one: the value under
\* `code`, else under `code_text`, when it is not blank
EntryCode(e) ==
    IF ~e.isObject THEN None
    ELSE IF e.code # None /\ Trim(Val(e.code)) # <<>> THEN e.code
    ELSE IF e.code_text # None /\ Trim(Val(e.code_text)) # <<>> THEN e.code_text
    ELSE None

\* the entries of the body that are well formed: the body is an array (or
\* holds one under `codes`), the entry has a code text, and the text
\* normalizes to the five-by-five pattern
WellFormed(response) ==
    {e \in Range(response.entries) :
        /\ response.shape \in {"array", "codes"}
        /\ EntryCode(e) # None
        /\ MatchesShiftCodePattern(normalizeShiftCode(Val(EntryCode(e))))}

RECURSIVE PatternMatches(_, _)
PatternMatches(text, from) ==
    IF \E i \in from..Len(text) : MatchesAt(text, i, TRUE)
    THEN LET first == CHOOSE i \in from..Len(text) :
                          /\ MatchesAt(text, i, TRUE)
                          /\ \A j \in from..(i - 1) : ~MatchesAt(text, j, TRUE)
         IN  <<first>> \o PatternMatches(text, first + 29)
    ELSE <<>>

\* C28: when the captioned table is not found or gives no draft, the whole
\* document is scanned: each substring of it that matches the five-by-five
\* pattern gives one draft with that code, annotated with the text of up
\* to 200 characters on each side of the match.
C28_FallbackScansDocument ==
    (pc = "applied"
        /\ (input.rows = None \/ TableDrafts(Val(input.rows), "") = <<>>)) =>
        LET matches == PatternMatches(input.html, 1)
        IN  /\ Len(output) = Len(matches)
            /\ \A k \in 1..Len(matches) :
                  /\ output[k].code = SubSeq(input.html, matches[k], matches[k] + 28)
                  /\ output[k].notes =
                        Some(Trim(CollapseSpaces(SubSeq(input.html,
                                              Max(1, matches[k] - 200),
                                              Min(Len(input.html), matches[k] + 28 + 200)))))

\* the same statement for the documents that are a code and nothing else
C28_WhenDocumentIsOneCode ==
    Len(input.html) = 29 => C28_FallbackScansDocument

(* ----------------------- the status of a record ----------------------- *)

\* the status the text of a draft stands for: the one of Active, Expired
\* and Hold it spells, in any case and with any white space around it, and
\* Active when there is no text or it spells none of them
StatusOf(text) ==
    LET word == IF text = None THEN "" ELSE Text(toLowerCase(Trim(Val(text))))
    IN  CASE word = "expired" -> "Expired"
          [] word = "hold" -> "Hold"
          [] OTHER -> "Active"

\* C29: the status of the record made of a draft is the status its text
\* stands for, read without regard to case and after trimming, and Active
\* when the text is absent or not recognized; a lower-case code with the
\* status 'active' gives the upper-case code text and the status Active.
C29_StatusNormalized ==
    (pc = "applied" /\ output.first # None) =>
        Val(output.first).status = StatusOf(input.first.draft.status)

\* the same statement for the texts that are not the name of a property
\* every object inherits
C29_WhenNotAnInheritedKey ==
    (input.first.draft.status
        # Some(<<"c", "o", "n", "s", "t", "r", "u", "c", "t", "o", "r">>)) =>
        C29_StatusNormalized

(* ---------------------- one dispatch of a code ------------------------ *)

\* C30: in the list a run hands to the dispatcher no identity hash occurs
\* twice, and the dispatch call logs at most one DeliveryAttemptRecord per
\* code, also when two sources of the run yield the same code.
C30_OneDispatchPerHash ==
    /\ InDispatch =>
          \A i, j \in 1..Len(codes) : codes[i].hash = codes[j].hash => i = j
    /\ \A i, j \in 1..Len(callLogs) :
          callLogs[i].codeId = callLogs[j].codeId => i = j

\* the same statement for the runs in which no code is yielded by two sources
C30_WhenYieldedByOneSource ==
    (\A o, p \in observed : o[2] = p[2] => o[1] = p[1])
        => C30_OneDispatchPerHash

(* ------------------------- runs that overlap -------------------------- *)

\* no two stored records have one hash, and every record a run wrote a
\* notifiedAt to still has one
StoreConsistent ==
    /\ \A a, b \in store : a.hash = b.hash => a.id = b.id
    /\ \A id \in overlap.stamped : NotifiedAtIn(store, id) # None

\* C31: the store holds at most one record per identity hash, and a
\* notifiedAt one run wrote is not lost to a later write of the other run,
\* also when the scheduled run and the manually triggered run overlap.
C31_OverlapKeepsStore == StoreConsistent

\* C31 as amended: the same holds as long as neither run started while the
\* other was in progress.
C31_ExclusiveRunsKeepStore == ~overlap.overlapped => StoreConsistent

\* C31 witness: the two runs have returned, one after the other; the first
\* stored and sent a code, the second observed it from another source and
\* merged it, and the one record of the code still has its notifiedAt.
C31_Witness ==
    /\ ~overlap.overlapped
    /\ \A r \in DOMAIN overlap.runs : overlap.runs[r].pc = "returned"
    /\ Cardinality(store) = 1
    /\ \E c \in store :
          /\ c.id \in overlap.stamped
          /\ c.metadata.notifiedAt # None
          /\ Len(c.sources) = 2

(* ------------------------ runs after a failure ------------------------ *)

\* the hashes of the codes merged from some source in this run
ObservedHashes == {o[2] : o \in observed}

\* C32: a record that was stored when the run started, without notifiedAt
\* and eligible at the run instant (its delivery was skipped before), is in
\* the list handed to the dispatcher whenever a source of the run yielded
\* its code; and a record that was stored when the run started is in that
\* list only if a source of the run yielded its code.
C32_SkippedRequeuedWhenObserved ==
    InDispatch =>
        /\ \A r \in storeAtStart :
              (r.metadata.notifiedAt = None /\ Eligible(r, now) /\ r.hash \in ObservedHashes)
                  => \E i \in 1..Len(codes) : codes[i].id = r.id
        /\ \A i \in 1..Len(codes) :
              codes[i].id \in StartIds => codes[i].hash \in ObservedHashes

\* C32 witness: the first run stored two codes and sent neither; the second
\* run observed one of them again and handed the dispatcher that one alone.
C32_Witness ==
    /\ pc = "applySent"
    /\ runNo = 2
    /\ sentEver = {}
    /\ Cardinality(storeAtStart) = 2
    /\ \A r \in storeAtStart : r.metadata.notifiedAt = None /\ Eligible(r, now)
    /\ Len(codes) = 1
    /\ codes[1].id \in StartIds
    /\ Cardinality(ObservedHashes) = 1

(* ---------------------- the result of a dispatch ---------------------- *)

\* the indexes of the SENT logs the call has saved
SentLogs == {i \in 1..Len(callLogs) : callLogs[i].status = "SENT"}

\* C33: the sent count of a dispatch call is the number of SENT logs the
\* call has saved and the length of sentRecords, every entry of sentRecords
\* has a SENT log of its record, and sent <= attempted = the length of the
\* list, also when the write of a delivery log fails.
C33_SentMatchesLogs ==
    InDispatch =>
        /\ result.sent = Len(result.sentRecords)
        /\ result.sent = Cardinality(SentLogs)
        /\ \A k \in 1..Len(result.sentRecords) :
              \E i \in SentLogs : callLogs[i].codeId = result.sentRecords[k].codeId
        /\ result.sent <= result.attempted
        /\ result.attempted = Len(codes)

\* the same statement for the calls whose log writes all succeed
C33_WhenLogWritesSucceed ==
    ~logWriteFailed => C33_SentMatchesLogs

(* ----------------------- what a record keeps -------------------------- *)

\* the stored record q is the record r at a later time: the same id, hash,
\* code text, createdAt and firstSeenAt, and no source less
Continues(r, q) ==
    /\ q.id = r.id
    /\ q.hash = r.hash
    /\ q.codeText = r.codeText
    /\ q.createdAt = r.createdAt
    /\ q.firstSeenAt = r.firstSeenAt
    /\ Range(r.sources) \subseteq Range(q.sources)

\* C34: no step of a run or of a resend deletes a stored record or changes
\* its id, hash, code text, createdAt or firstSeenAt, or takes a source from
\* it, and the sources of every stored record are at least one and no two
\* the same.
C34_RecordsKeepIdentity ==
    [][/\ \A r \in store : \E q \in store' : Continues(r, q)
       /\ Cardinality(store') >= Cardinality(store)
       /\ \A q \in store' :
             /\ q.sources # <<>>
             /\ \A i, j \in 1..Len(q.sources) : q.sources[i] = q.sources[j] => i = j]_vars

\* C34 witness: a second run has merged a code the first run stored from
\* one source; the record now names two sources and was updated after it
\* was created; the other record of the store was not observed again.
C34_Witness ==
    /\ runNo = 2
    /\ pc = "returned"
    /\ Cardinality(store) = 2
    /\ \E r \in store :
          /\ r.id[1] = 1
          /\ Len(r.sources) = 2
          /\ r.updatedAt > r.createdAt

(* ----------------------- the counts of a summary ---------------------- *)

\* C35: in the summary of a run that has returned, totalCodes is the number
\* of records stored when the run started plus newCodes, duplicatesSkipped
\* is totalCodes - newCodes, that is the number of records stored when the
\* run started, whatever the run observed, and notificationsSent is the
\* number of deliveries the dispatch call reported sent (the number of its
\* SENT logs, when its log writes succeeded).
C35_SummaryCounts ==
    pc = "returned" =>
        LET s == Val(summary)
        IN  /\ s.newCodes = Len(newCodes)
            /\ s.totalCodes = Cardinality(storeAtStart) + s.newCodes
            /\ s.duplicatesSkipped = s.totalCodes - s.newCodes
            /\ s.duplicatesSkipped = Cardinality(storeAtStart)
            /\ s.duplicatesSkipped >= 0
            /\ s.notificationsSent = Len(result.sentRecords)
            /\ ~logWriteFailed =>
                  s.notificationsSent =
                      Cardinality({i \in 1..Len(callLogs) : callLogs[i].status = "SENT"})

\* C35 witness: the second run found two records stored, observed none of
\* them, stored no new code and sent nothing: duplicatesSkipped is 2.
C35_Witness ==
    /\ pc = "returned"
    /\ runNo = 2
    /\ observed = {}
    /\ Cardinality(storeAtStart) = 2
    /\ Val(summary).duplicatesSkipped = 2
    /\ Val(summary).newCodes = 0
    /\ Val(summary).totalCodes = 2

(* ------------------- the sources of a summary ------------------------- *)

\* the sources whose processing threw in this run
ThrowingSources == {failures[i].source : i \in 1..Len(failures)}

\* C36: the sources scanned are, in the configured order, the enabled
\* sources whose fetch was started, those that failed included; in the
\* summary of a run that has returned they are all the enabled sources,
\* errors is the number of sources whose processing threw, and so
\* errors <= the number of sources scanned and http429 + http5xx <= errors.
C36_ScannedAndErrors ==
    /\ pc \in {"fetch", "merge", "dispatch"} =>
          /\ sourcesScanned = SubSeq(sources, 1, Len(sourcesScanned))
          /\ ThrowingSources \subseteq Range(sourcesScanned)
          /\ errors = Cardinality(ThrowingSources)
    /\ pc = "returned" =>
          LET s == Val(summary)
          IN  /\ s.sourcesScanned = sources
              /\ ThrowingSources \subseteq Range(s.sourcesScanned)
              /\ s.errors = Cardinality(ThrowingSources)
              /\ s.errors <= Len(s.sourcesScanned)
              /\ s.http429 + s.http5xx <= s.errors

\* C36 witness: the fetch of the first source was answered 429 and the
\* store failed while the codes of the second were merged; the run returned
\* with both sources scanned, two errors and one of them a 429.
C36_Witness ==
    /\ pc = "returned"
    /\ Len(failures) = 2
    /\ failures[1].pos = "fetch"
    /\ failures[1].error.status = 429
    /\ failures[2].pos = "merge"
    /\ Val(summary).sourcesScanned = <<"OFFICIAL_SITE", "MEDIA_TRUSTED">>
    /\ Val(summary).errors = 2
    /\ Val(summary).http429 = 1
    /\ Val(summary).http5xx = 0

(* ------------------------- the end of a run --------------------------- *)

\* a run is in progress
Running == pc \notin {"idle", "returned", "rejected"}

\* C37: a run that is in progress leads to one that has returned its
\* summary or has rejected, as long as every fetch, webhook request and
\* store call returns or throws; on the way it starts at most one fetch per
\* enabled source and makes at most 3 webhook requests per queued record.
C37_RunTerminates ==
    /\ Running ~> (pc \in {"returned", "rejected"})
    /\ [](Running => /\ Len(sourcesScanned) <= Len(sources)
                     /\ \A i, j \in 1..Len(sourcesScanned) :
                           sourcesScanned[i] = sourcesScanned[j] => i = j
                     /\ Len(requests) <= 3)

\* C37 witness: a run has returned after both its fetches and after the
\* webhook answered 500 to every request for the one record it had queued
\* (the third answer ended the attempts and was logged).
C37_Witness ==
    /\ pc = "returned"
    /\ Len(sourcesScanned) = 2
    /\ Len(codes) = 1
    /\ result.sent = 0
    /\ Len(callLogs) = 1
    /\ callLogs[1].status = "SKIPPED"
    /\ callLogs[1].error = Some("HTTP 500")

(* ------------------------- load by identity --------------------------- *)

\* C38: for every stored record r, getCodeByHash(r.hash) returns r.
C38_LoadByHash ==
    \A r \in store : getCodeByHash(store, r.hash) = Some(r)

====
